---- MODULE Spec2Model ----
(***************************************************************************)
(* A model of the feedback-driven retrieval-and-generation runtime of      *)
(* backend/main.py and backend/rag_pipeline.py: the Chroma index and its   *)
(* rebuild, retrieval, the tiered generator, the JSONL run log with its    *)
(* label patch and clear, run by the request handlers of the FastAPI app;  *)
(* the Streamlit app of app.py with the pipeline of rag_pipeline.py; and   *)
(* the retrieval metrics of metrics.py.                                    *)
(*                                                                         *)
(* Conventions.  Python's None is the string "None".  A distance is an     *)
(* integer number of hundredths (0.35 is 35).  A text is identified by     *)
(* what it was made from (a word range of a file, a model's reply), so     *)
(* that two texts are equal exactly when the code would produce the same   *)
(* string.  The handlers are `def` endpoints, which FastAPI runs on a      *)
(* thread pool: Threads are the pool's workers.                            *)
(***************************************************************************)
EXTENDS Integers, Sequences, FiniteSets, TLC

VARIABLES
    log,        \* data/run_logs.jsonl: whether it exists, and its lines
    nextId,     \* the number of run ids drawn so far (uuid4 is always fresh)
    pipeline,   \* the global RAGPipeline's configuration (set in __init__)
    corpus,     \* which version of the files under data_dir is on disk
    dbDocs,     \* the Chroma collection "docs": whether it exists, and its entries
    collStale,  \* self.collection refers to a collection deleted since
    th,         \* per worker thread: where its handler is, and its locals
    resp,       \* per worker thread: the last response it sent
    gen,        \* the last direct call of RAGPipeline.generate and its result
    cleared,    \* history: the run ids of the records a clear has removed
    chunked,    \* a call of RAGPipeline._chunk: its arguments and its loop's locals
    app,        \* the Streamlit app (src/app.py): its pipeline and session state
    dataset,    \* data/fine_tune_dataset.jsonl: whether it exists, and its lines
    sent,       \* history: per run in the log, the messages built for the model
    call        \* a direct call of a helper function: its arguments and its result

vars == <<log, nextId, pipeline, corpus, dbDocs, collStale, th, resp, gen, cleared,
          chunked, app, dataset, sent, call>>

\* ------------------------------------------------------------------ bounds
MaxRuns == 2         \* queries logged in one behaviour
NThreads == 2        \* worker threads serving requests
MaxWords == 4        \* words of a text given to _chunk directly
MaxLabels == 3       \* relevance labels given to precision_at_k and recall_at_k
MaxDistance == 200   \* the largest cosine distance, in hundredths

Threads == 1..NThreads
RunIds == 1..MaxRuns

\* --------------------------------------------------------------- constants
None == "None"

VALID_LABELS == {"good", "mixed", "off_topic", "no_evidence"}

BASE_MODEL == "gpt-4o-mini-2024-07-18"
FT_MODEL == "ft:gpt-4o-mini"
OTHER_MODEL == "gpt-4o"

Min(a, b) == IF a < b THEN a ELSE b
Max(a, b) == IF a > b THEN a ELSE b

\* ------------------------------------------------------------ the corpus
\* The files under data_dir, in the order _iter_source_files yields them
\* (*.txt before *.md).  A file is its name, its revision, its number of
\* words, and `near`: the cosine distance (in hundredths) the embedding
\* model gives between the question and the file's opening words.
Corpora ==
    <<  << [name |-> "a.txt", rev |-> 1, words |-> 1500, near |-> 20],
           [name |-> "b.md",  rev |-> 1, words |-> 300,  near |-> 50] >>,
        << [name |-> "a.txt", rev |-> 2, words |-> 650,  near |-> 70],
           [name |-> "b.md",  rev |-> 1, words |-> 300,  near |-> 50] >>,
        << >>,
        << [name |-> "a.txt", rev |-> 3, words |-> 700,  near |-> 50],
           [name |-> "b.md",  rev |-> 1, words |-> 300,  near |-> 50] >>,
        << [name |-> "a.txt", rev |-> 4, words |-> 100,  near |-> 10],
           [name |-> "c.txt", rev |-> 1, words |-> 100,  near |-> 30],
           [name |-> "d.txt", rev |-> 1, words |-> 100,  near |-> 40],
           [name |-> "b.md",  rev |-> 1, words |-> 300,  near |-> 50] >> >>

CorpusVersions == DOMAIN Corpora

CHUNK_SIZE == 700
OVERLAP == 100

\* Python's seq[start:stop] on a list of n items, as the range [from, to) of
\* the items taken: a negative index counts from the end, an index past an
\* end is clipped, and every empty slice is the same empty list.
PyIndex(n, i) == IF i < 0 THEN Max(0, n + i) ELSE Min(i, n)
PySlice(n, start, stop) ==
    IF PyIndex(n, start) < PyIndex(n, stop)
    THEN [from |-> PyIndex(n, start), to |-> PyIndex(n, stop)]
    ELSE [from |-> 0, to |-> 0]

\* The step of the loop without max(1, ...).
StrideUnguarded(chunk_size, overlap) == chunk_size - overlap
\* The step of the loop with the overlap forgotten.
StrideIgnoresOverlap(chunk_size, overlap) == Max(1, chunk_size)

\* The step of the loop of _chunk: max(1, chunk_size - overlap).
Stride(chunk_size, overlap) == Max(1, chunk_size - overlap)

\* RAGPipeline._chunk on a text of n words: the windows words[i : i + chunk_size],
\* as word ranges [from, to).
RECURSIVE ChunkFrom(_, _, _, _)
ChunkFrom(i, n, chunk_size, overlap) ==
    IF i >= n THEN << >>
    ELSE << PySlice(n, i, i + chunk_size) >>
         \o ChunkFrom(i + Stride(chunk_size, overlap), n, chunk_size, overlap)

Chunk(n, chunk_size, overlap) == ChunkFrom(0, n, chunk_size, overlap)

\* The same function one iteration at a time.  A call is its arguments (n is
\* len(words)), the locals i and chunks, and where it is: in the loop or returned.
NoChunk == [pc |-> "none"]
ChunkCall(n, chunk_size, overlap) ==
    [ pc |-> "loop", n |-> n, chunk_size |-> chunk_size, overlap |-> overlap,
      i |-> 0, chunks |-> << >> ]

\* One iteration of `while i < len(words)`.  (No call appends more windows
\* than the text has words; the last conjunct keeps the state space finite
\* for a loop that would not advance.)
ChunkLoop ==
    /\ chunked.pc = "loop"
    /\ chunked.i < chunked.n
    /\ Len(chunked.chunks) <= MaxWords
    /\ chunked' =
          [chunked EXCEPT
              !.chunks = @ \o << PySlice(chunked.n, chunked.i,
                                         chunked.i + chunked.chunk_size) >>,
              !.i = @ + Stride(chunked.chunk_size, chunked.overlap)]
    /\ UNCHANGED <<log, nextId, pipeline, corpus, dbDocs, collStale, th, resp, gen,
                   cleared, app, dataset, sent, call>>

\* The loop test fails: `return chunks`.
ChunkReturn ==
    /\ chunked.pc = "loop"
    /\ ~(chunked.i < chunked.n)
    /\ chunked' = [chunked EXCEPT !.pc = "done"]
    /\ UNCHANGED <<log, nextId, pipeline, corpus, dbDocs, collStale, th, resp, gen,
                   cleared, app, dataset, sent, call>>

\* The text of a chunk: the words [from, to) of a revision of a file.
ChunkText(file, w) == [file |-> file.name, rev |-> file.rev, from |-> w.from, to |-> w.to]

\* The embedding model's distance between the question and a chunk text.
Distance(file, w) == Min(99, file.near + (w.from \div 60))

\* RAGPipeline._build_index: the entries added to the collection, numbered by
\* one counter (global_chunk_idx) across all files.
RECURSIVE BuildFrom(_, _, _)
BuildFrom(files, k, global_chunk_idx) ==
    IF k > Len(files) THEN << >>
    ELSE LET file == files[k]
             chunks == Chunk(file.words, CHUNK_SIZE, OVERLAP)
             entries == [j \in 1..Len(chunks) |->
                            [ id       |-> <<file.name, global_chunk_idx + j - 1>>,
                              source   |-> file.name,
                              chunk    |-> global_chunk_idx + j - 1,
                              text     |-> ChunkText(file, chunks[j]),
                              distance |-> Distance(file, chunks[j]) ]]
         IN  entries \o BuildFrom(files, k + 1, global_chunk_idx + Len(chunks))

BuildEntries(files) == BuildFrom(files, 1, 0)

\* RAGPipeline._build_index of src/rag_pipeline.py, the pipeline of the
\* Streamlit app: enumerate(self._chunk(text)) numbers the chunks of each file
\* from 0.
RECURSIVE LegacyBuildFrom(_, _)
LegacyBuildFrom(files, k) ==
    IF k > Len(files) THEN << >>
    ELSE LET file == files[k]
             chunks == Chunk(file.words, CHUNK_SIZE, OVERLAP)
             entries == [j \in 1..Len(chunks) |->
                            [ id       |-> <<file.name, j - 1>>,
                              source   |-> file.name,
                              chunk    |-> j - 1,
                              text     |-> ChunkText(file, chunks[j]),
                              distance |-> Distance(file, chunks[j]) ]]
         IN  entries \o LegacyBuildFrom(files, k + 1)

LegacyBuildEntries(files) == LegacyBuildFrom(files, 1)

\* collection.add(documents, metadatas, ids): entries whose id the collection
\* already holds are not added again.
CollectionAdd(docs, entries) ==
    LET have == {docs[i].id : i \in 1..Len(docs)}
        RECURSIVE New(_)
        New(k) == IF k > Len(entries) THEN << >>
                  ELSE (IF entries[k].id \in have THEN << >> ELSE << entries[k] >>)
                       \o New(k + 1)
    IN  docs \o New(1)

\* collection.query(n_results = k): the k entries nearest to the question,
\* nearest first; fewer when the collection holds fewer.
RECURSIVE Nearest(_, _)
Nearest(entries, k) ==
    IF k <= 0 \/ entries = {} THEN << >>
    ELSE LET best == CHOOSE e \in entries :
                        \A f \in entries : <<e.distance, e.chunk>> = <<f.distance, f.chunk>>
                                           \/ e.distance < f.distance
                                           \/ (e.distance = f.distance /\ e.chunk < f.chunk)
         IN  << best >> \o Nearest(entries \ {best}, k - 1)

\* retrieve with n_results lost: every entry is returned.
RetrieveAll(docs, k) ==
    LET hits == Nearest({docs[i] : i \in 1..Len(docs)}, Len(docs))
    IN  [i \in 1..Len(hits) |->
            [ page_content |-> hits[i].text,
              source       |-> hits[i].source,
              chunk        |-> hits[i].chunk,
              id           |-> hits[i].id,
              distance     |-> hits[i].distance ]]

\* RAGPipeline.retrieve: Documents (page_content, metadata with source, chunk,
\* id and distance) for the top-k entries.
Retrieve(docs, k) ==
    LET hits == Nearest({docs[i] : i \in 1..Len(docs)}, k)
    IN  [i \in 1..Len(hits) |->
            [ page_content |-> hits[i].text,
              source       |-> hits[i].source,
              chunk        |-> hits[i].chunk,
              id           |-> hits[i].id,
              distance     |-> hits[i].distance ]]

\* retrieve of src/rag_pipeline.py: the metadata is the stored one (source and
\* chunk), without id and distance.
LegacyRetrieve(docs, k) ==
    LET hits == Nearest({docs[i] : i \in 1..Len(docs)}, k)
    IN  [i \in 1..Len(hits) |->
            [ page_content |-> hits[i].text,
              source       |-> hits[i].source,
              chunk        |-> hits[i].chunk ]]

\* ---------------------------------------------------------- the generator
\* A pipeline configuration, as __init__ leaves it: whether an OpenAI client
\* was made, the fine-tuned model's name (None when not configured), the base
\* model's name (never empty: it has a default) and use_finetuned_by_default.
Pipelines ==
    [ client : BOOLEAN, ft_model : {None, FT_MODEL}, base_model : {BASE_MODEL},
      use_finetuned_by_default : BOOLEAN ]

\* What one call of responses.create may give: an exception ("error"), no
\* text part ("empty"), text parts holding only whitespace ("blank"), or text.
Outcomes == {"error", "empty", "blank", "text"}

\* Optional[str] results: NoAnswer is Python's None; a string is its head (the
\* part before the sources list, "" when there is none), whether a "Sources:"
\* header follows, and the sources list under it.  Str is the string
\* `head + (f"\n\nSources:\n{sources}" if sources else "")`.
NoAnswer == [kind |-> "None"]
Str(head, sources) ==
    [kind |-> "str", head |-> head, header |-> sources # << >>, sources |-> sources]
IsEmptyStr(a) == a.kind = "str" /\ a.head = << >> /\ ~a.header /\ a.sources = << >>

\* _build_context_and_sources: the numbered context block "[i] (source#chunk) text"
\* and the sources list "[i] source (chunk n)", one item per document, in order.
ContextBlock(docs) ==
    [i \in 1..Len(docs) |-> [n |-> i, source |-> docs[i].source,
                             chunk |-> docs[i].chunk, text |-> docs[i].page_content]]
SourcesBlock(docs) ==
    [i \in 1..Len(docs) |-> [n |-> i, source |-> docs[i].source, chunk |-> docs[i].chunk]]

\* self.answer_system_prompt
SYSTEM_PROMPT ==
    << "You are a careful instructor for a Retrieval-Augmented Generation (RAG) system. ",
       "Explain concepts clearly and step by step using ONLY the provided context. ",
       "If something is not supported by the context, explicitly say you don't have enough information. ",
       "First write a short 1-2 sentence summary, then a few concise bullet points. ",
       "Always include inline citations like [1], [2] that refer to the provided context items." >>

\* The messages of _build_prompt of src/rag_pipeline.py, whose user message
\* words the context otherwise and ends with an instruction.
BuildPrompt(query, docs) ==
    << [ role |-> "system", content |-> SYSTEM_PROMPT ],
       [ role |-> "user",
         content |-> << "Question: ", query,
                        "\n\nContext items (each line is a different source chunk with its citation tag):\n\n",
                        ContextBlock(docs), "\n\nNow write the answer with inline citations." >> ] >>

\* _build_messages: the system message and the user message, whose content is
\* f"Question: {query}\n\nContext items:\n\n{context_block}".
BuildMessages(query, docs) ==
    << [ role |-> "system", content |-> SYSTEM_PROMPT ],
       [ role |-> "user",
         content |-> << "Question: ", query, "\n\nContext items:\n\n",
                        ContextBlock(docs) >> ] >>

\* The text a model returns is identified by the model that wrote it.
ReplyText(model_name, out) ==
    IF out = "blank" THEN << >> ELSE << "reply", model_name >>

\* _generate_with_openai: None without a client, on an exception and when no
\* text part is returned; otherwise the stripped parts joined, then the
\* "Sources:" list when there is one, then stripped.
GenerateWithOpenAI(p, query, docs, model_name, out) ==
    IF ~p.client THEN NoAnswer
    ELSE IF out \in {"error", "empty"} THEN NoAnswer
    ELSE Str(ReplyText(model_name, out), SourcesBlock(docs))

\* _baseline_answer: the fixed preamble, the question, the first 1200
\* characters of the context, and the "Sources:" header with the sources list
\* (the header is written whether or not there is a source).
BaselineAnswer(query, docs) ==
    [ Str(<< "baseline", query,
             [upto |-> 1200, of |-> [i \in 1..Len(docs) |-> docs[i].page_content]] >>,
          SourcesBlock(docs))
      EXCEPT !.header = TRUE ]

\* The primary model generate() chooses.  use_finetuned is "True", "False" or
\* None; force_model is a model name or None.
PrimaryModel(p, use_finetuned, force_model) ==
    IF force_model # None THEN force_model
    ELSE LET use_ft == IF use_finetuned = None THEN p.use_finetuned_by_default
                       ELSE use_finetuned = "True"
         IN  IF use_ft /\ p.ft_model # None THEN p.ft_model ELSE p.base_model

\* generate without the `primary_model != self.base_model` test of its
\* second step.
GenerateRetriesBase(p, query, docs, use_finetuned, force_model, out1, out2) ==
    LET primary_model == PrimaryModel(p, use_finetuned, force_model)
        try1 == p.client
        answer1 == IF try1 THEN GenerateWithOpenAI(p, query, docs, primary_model, out1)
                   ELSE NoAnswer
        try2 == answer1 = NoAnswer /\ p.client
        answer2 == IF try2 THEN GenerateWithOpenAI(p, query, docs, p.base_model, out2)
                   ELSE answer1
    IN  [ answer |-> IF answer2 = NoAnswer THEN BaselineAnswer(query, docs) ELSE answer2,
          calls  |-> (IF try1 THEN << primary_model >> ELSE << >>)
                     \o (IF try2 THEN << p.base_model >> ELSE << >>),
          outs   |-> (IF try1 THEN << out1 >> ELSE << >>)
                     \o (IF try2 THEN << out2 >> ELSE << >>),
          messages |-> (IF try1 THEN << BuildMessages(query, docs) >> ELSE << >>)
                       \o (IF try2 THEN << BuildMessages(query, docs) >> ELSE << >>) ]

\* RAGPipeline.generate.  out1 and out2 are the outcomes of the first and of
\* the second model call, should they be made.  The result is the answer and,
\* as the OpenAI service sees them, `calls`, the models called in order, and
\* `messages`, the input each call was given.
Generate(p, query, docs, use_finetuned, force_model, out1, out2) ==
    LET primary_model == PrimaryModel(p, use_finetuned, force_model)
        try1 == p.client
        answer1 == IF try1 THEN GenerateWithOpenAI(p, query, docs, primary_model, out1)
                   ELSE NoAnswer
        try2 == answer1 = NoAnswer /\ p.client /\ primary_model # p.base_model
        answer2 == IF try2 THEN GenerateWithOpenAI(p, query, docs, p.base_model, out2)
                   ELSE answer1
    IN  [ answer |-> IF answer2 = NoAnswer THEN BaselineAnswer(query, docs) ELSE answer2,
          calls  |-> (IF try1 THEN << primary_model >> ELSE << >>)
                     \o (IF try2 THEN << p.base_model >> ELSE << >>),
          outs   |-> (IF try1 THEN << out1 >> ELSE << >>)
                     \o (IF try2 THEN << out2 >> ELSE << >>),
          messages |-> (IF try1 THEN << BuildMessages(query, docs) >> ELSE << >>)
                       \o (IF try2 THEN << BuildMessages(query, docs) >> ELSE << >>) ]

\* The model of the Streamlit app's pipeline (llm_model's default).
LLM_MODEL == "gpt-4o"

\* generate of src/rag_pipeline.py: one model call (message.content stripped,
\* then the sources list when there is one), and the offline template when
\* there is no client or the call raises.
LegacyGenerate(client, query, docs, out) ==
    IF client /\ out # "error"
    THEN Str(ReplyText(LLM_MODEL, out), SourcesBlock(docs))
    ELSE BaselineAnswer(query, docs)

\* -------------------------------------------------------------- the run log
\* A line of run_logs.jsonl: a JSON object written by json.dumps ("rec"), a
\* line json.loads rejects ("bad"), or a line that is empty once stripped
\* ("blank").  json.loads of a line json.dumps wrote gives the record back,
\* key order included, and json.dumps of that record gives the same line.
BadLine == [kind |-> "bad"]
BlankLine == [kind |-> "blank"]
Dumps(record) == [kind |-> "rec", rec |-> record]
Parses(line) == line.kind = "rec"
Loads(line) == line.rec

\* A record an earlier run of the server left in the log.
OldRecord ==
    [ run_id |-> 0, query |-> "q", answer |-> Str(<< "reply", BASE_MODEL >>, << >>),
      trust_score |-> 0, top_k |-> 1, model |-> BASE_MODEL,
      label |-> "mixed", eval_notes |-> None, retrieved |-> << >> ]

NoLog == [exists |-> FALSE, lines |-> << >>]
File(lines) == [exists |-> TRUE, lines |-> lines]

\* The records a reader gets from the lines: blank and unparsable lines are
\* skipped (read_all_runs, update_run_label).
Records(lines) ==
    LET good == SelectSeq(lines, Parses)
    IN  [i \in 1..Len(good) |-> Loads(good[i])]

RunIdsOf(lines) == {Records(lines)[i].run_id : i \in 1..Len(Records(lines))}

\* compute_trust_score without the clamp of its last line.
ComputeTrustScoreUnclamped(docs) ==
    IF docs = << >> THEN 0
    ELSE LET sources == {docs[i].source : i \in 1..Len(docs)}
         IN  60 + Min(Len(docs) * 5, 20) + Min(Cardinality(sources) * 5, 20)

\* compute_trust_score
ComputeTrustScore(docs) ==
    IF docs = << >> THEN 0
    ELSE LET sources == {docs[i].source : i \in 1..Len(docs)}
             base == 60 + Min(Len(docs) * 5, 20) + Min(Cardinality(sources) * 5, 20)
         IN  Max(0, Min(99, base))

\* A missing distance (metadata without "distance": Python's None).
NoDistance == -1

\* relevance_label with the thresholds counted in the band below them.
RelevanceLabelInclusive(distance) ==
    IF distance = NoDistance THEN "Unknown"
    ELSE IF distance <= 35 THEN "Related"
    ELSE IF distance <= 65 THEN "Somewhat related"
    ELSE "Off-topic"

\* relevance_label, on a distance in hundredths
RelevanceLabel(distance) ==
    IF distance = NoDistance THEN "Unknown"
    ELSE IF distance < 35 THEN "Related"
    ELSE IF distance < 65 THEN "Somewhat related"
    ELSE "Off-topic"

\* A record whose label is none of the valid ones (the file was edited by
\* hand), with one retrieved chunk.
GreatRecord ==
    [ run_id |-> 0, query |-> "q", answer |-> Str(<< "reply", BASE_MODEL >>, << >>),
      trust_score |-> 50, top_k |-> 1, model |-> BASE_MODEL,
      label |-> "great", eval_notes |-> None,
      retrieved |-> << [ source |-> "c.txt", chunk |-> 0, doc_id |-> << "c.txt", 0 >>,
                         distance |-> 50, relevance |-> RelevanceLabel(50),
                         text |-> ChunkText([name |-> "c.txt", rev |-> 1, words |-> 1,
                                             near |-> 50], PySlice(1, 0, 1)) ] >> ]

\* model_name_for_run
ModelNameForRun(p, use_finetuned) ==
    IF use_finetuned /\ p.ft_model # None THEN p.ft_model ELSE p.base_model

\* The ChunkOut list query_rag builds from the documents.
ChunksOut(docs) ==
    [i \in 1..Len(docs) |->
        [ source |-> docs[i].source, chunk |-> docs[i].chunk,
          text |-> docs[i].page_content, distance |-> docs[i].distance,
          relevance |-> RelevanceLabel(docs[i].distance) ]]

\* The record log_run_to_file builds (timestamp and latency_ms, two clock
\* readings that nothing reads back, are left out).
RunRecord(run_id, query, answer, trust_score, docs, chunks, top_k, model_name) ==
    [ run_id |-> run_id, query |-> query, answer |-> answer,
      trust_score |-> trust_score, top_k |-> top_k, model |-> model_name,
      label |-> None, eval_notes |-> None,
      retrieved |-> [i \in 1..Min(Len(docs), Len(chunks)) |->
                        [ source |-> docs[i].source, chunk |-> docs[i].chunk,
                          doc_id |-> docs[i].id, distance |-> docs[i].distance,
                          relevance |-> chunks[i].relevance,
                          text |-> docs[i].page_content ]] ]

\* A write that puts the line first.
PrependLine(file, line) == File(<< line >> \o file.lines)

\* open(LOG_PATH, "a") and one write: the file is created when missing.
AppendLine(file, line) == File(file.lines \o << line >>)

\* A patch that writes back the matching record alone.
PatchedLinesDropsOthers(lines, run_id, label, notes) ==
    LET records == SelectSeq(Records(lines), LAMBDA r : r.run_id = run_id)
    IN  [i \in 1..Len(records) |->
            Dumps([records[i] EXCEPT !.label = label, !.eval_notes = notes])]

\* The loop with the run_id test lost: every record takes the label.
PatchedLinesEveryRun(lines, run_id, label, notes) ==
    LET records == Records(lines)
    IN  [i \in 1..Len(records) |->
            Dumps([records[i] EXCEPT !.label = label, !.eval_notes = notes])]

\* A patch that writes back the lines it could not parse as they were.
PatchedLinesKeepsDamaged(lines, run_id, label, notes) ==
    [i \in 1..Len(lines) |->
        IF ~Parses(lines[i]) THEN lines[i]
        ELSE IF Loads(lines[i]).run_id = run_id
        THEN Dumps([Loads(lines[i]) EXCEPT !.label = label, !.eval_notes = notes])
        ELSE lines[i]]

\* A patch that keeps the lines of the run and adds the patched ones at the end.
PatchedLinesAppends(lines, run_id, label, notes) ==
    LET records == Records(lines)
        matching == SelectSeq(records, LAMBDA record : record.run_id = run_id)
    IN  [i \in 1..Len(records) |-> Dumps(records[i])]
        \o [i \in 1..Len(matching) |->
               Dumps([matching[i] EXCEPT !.label = label, !.eval_notes = notes])]

\* The loop of update_run_label over the lines it read: every parsable line
\* is re-dumped, the lines of the run with the label and the notes replaced.
PatchedLines(lines, run_id, label, notes) ==
    LET records == Records(lines)
    IN  [i \in 1..Len(records) |->
            IF records[i].run_id = run_id
            THEN Dumps([records[i] EXCEPT !.label = label, !.eval_notes = notes])
            ELSE Dumps(records[i])]

\* `updated` at the end of that loop.
PatchUpdated(lines, run_id) == run_id \in RunIdsOf(lines)

\* update_run_label without its `if not updated` test.
PatchStatusNoMatchTest(file, run_id, label) ==
    IF label \notin VALID_LABELS THEN 400
    ELSE IF ~file.exists THEN 404
    ELSE 200

\* update_run_label with the label test moved after the two 404 tests.
PatchStatusLabelTestLast(file, run_id, label) ==
    IF ~file.exists THEN 404
    ELSE IF run_id \notin RunIdsOf(file.lines) THEN 404
    ELSE IF label \notin VALID_LABELS THEN 400
    ELSE 200

\* What update_run_label answers before it writes anything: 400 for a label
\* outside VALID_LABELS, 404 without a log file or without a matching record,
\* and otherwise 200 once `new_lines` is written.
PatchStatus(file, run_id, label) ==
    IF label \notin VALID_LABELS THEN 400
    ELSE IF ~file.exists THEN 404
    ELSE IF ~PatchUpdated(file.lines, run_id) THEN 404
    ELSE 200

\* read_all_runs: the records of the file, none when there is no file.
ReadAllRuns(file) == IF file.exists THEN Records(file.lines) ELSE << >>

Reverse(seq) == [i \in 1..Len(seq) |-> seq[Len(seq) + 1 - i]]

\* read_runs_from_file: the records of the lines[-limit:], newest first.
ReadRunsFromFile(file, limit) ==
    IF ~file.exists \/ file.lines = << >> THEN << >>
    ELSE LET selected == PySlice(Len(file.lines), 0 - limit, Len(file.lines))
         IN  Records(Reverse(SubSeq(file.lines, selected.from + 1, selected.to)))

\* compute_source_quality_scores, in hundredths: over the runs with a valid
\* label, every retrieved chunk counts for its source: +1 under "good", +0.3
\* under "mixed", -1 under "off_topic" (and 0 under "no_evidence").  The
\* result maps the sources counted to their scores.
LabelWeight(label) ==
    IF label = "good" THEN 100
    ELSE IF label = "mixed" THEN 30
    ELSE IF label = "off_topic" THEN 0 - 100
    ELSE 0

RECURSIVE SumOver(_, _)
SumOver(seq, i) == IF i > Len(seq) THEN 0 ELSE seq[i] + SumOver(seq, i + 1)

\* The scores with one count per run that retrieved the source.
ScoresPerRun(file) ==
    LET runs == ReadAllRuns(file)
        labelled == SelectSeq(runs, LAMBDA run : run.label \in VALID_LABELS)
        srcs == UNION { {labelled[i].retrieved[j].source : j \in 1..Len(labelled[i].retrieved)}
                        : i \in 1..Len(labelled) }
        Count(run, src) == IF \E j \in 1..Len(run.retrieved) : run.retrieved[j].source = src
                           THEN 1 ELSE 0
    IN  [src \in srcs |->
            SumOver([i \in 1..Len(labelled) |->
                        LabelWeight(labelled[i].label) * Count(labelled[i], src)], 1)]

ComputeSourceQualityScores(file) ==
    LET runs == ReadAllRuns(file)
        labelled == SelectSeq(runs, LAMBDA run : run.label \in VALID_LABELS)
        srcs == UNION { {labelled[i].retrieved[j].source : j \in 1..Len(labelled[i].retrieved)}
                        : i \in 1..Len(labelled) }
        Count(run, src) == Cardinality({j \in 1..Len(run.retrieved) :
                                           run.retrieved[j].source = src})
    IN  [src \in srcs |->
            SumOver([i \in 1..Len(labelled) |->
                        LabelWeight(labelled[i].label) * Count(labelled[i], src)], 1)]

\* The re-ranking of query_rag_rerank: combined = source score - distance, a
\* source without a score counting 0; sorted by combined, descending, documents
\* of equal combined staying in retrieval order (list.sort is stable).
Combined(d, source_scores) ==
    (IF d.source \in DOMAIN source_scores THEN source_scores[d.source] ELSE 0)
    - (IF d.distance = NoDistance THEN 0 ELSE d.distance)

\* A sort that puts the last of the documents of equal combined first.
RECURSIVE RerankedTiesLast(_, _)
RerankedTiesLast(docs, source_scores) ==
    IF docs = << >> THEN << >>
    ELSE LET first == CHOOSE i \in 1..Len(docs) :
                         /\ \A j \in 1..Len(docs) :
                               Combined(docs[i], source_scores) >= Combined(docs[j], source_scores)
                         /\ \A j \in (i + 1)..Len(docs) :
                               Combined(docs[j], source_scores) < Combined(docs[i], source_scores)
             rest == [j \in 1..(Len(docs) - 1) |-> IF j < first THEN docs[j] ELSE docs[j + 1]]
         IN  << docs[first] >> \o RerankedTiesLast(rest, source_scores)

\* A re-ranking that keeps the documents whose combined is not negative.
RerankedDropsNegative(docs, source_scores) ==
    SelectSeq(docs, LAMBDA d : Combined(d, source_scores) >= 0)

RECURSIVE Reranked(_, _)
Reranked(docs, source_scores) ==
    IF docs = << >> THEN << >>
    ELSE LET first == CHOOSE i \in 1..Len(docs) :
                         /\ \A j \in 1..Len(docs) :
                               Combined(docs[i], source_scores) >= Combined(docs[j], source_scores)
                         /\ \A j \in 1..(i - 1) :
                               Combined(docs[j], source_scores) < Combined(docs[i], source_scores)
             rest == [j \in 1..(Len(docs) - 1) |-> IF j < first THEN docs[j] ELSE docs[j + 1]]
         IN  << docs[first] >> \o Reranked(rest, source_scores)

\* The lines export_dataset builds: one training example per run with a valid
\* label: the system prompt, the question with the numbered context of the
\* retrieved chunks, the stored answer, and the metadata.
SystemMsgContent ==
    << "You are a careful instructor for a Retrieval-Augmented Generation (RAG) system. ",
       "Explain concepts clearly and step by step using ONLY the provided context. ",
       "If something is not supported by the context, explicitly say you don't have enough information. ",
       "First write a short 1-2 sentence summary, then a few concise bullet points. ",
       "Always include inline citations like [1], [2] that refer to the provided context items." >>

DatasetRecord(run) ==
    [ messages |->
        << [ role |-> "system", content |-> SystemMsgContent ],
           [ role |-> "user",
             content |-> << "Question: ", run.query, "\n\nContext items:\n\n",
                            [i \in 1..Len(run.retrieved) |->
                                [ n |-> i, source |-> run.retrieved[i].source,
                                  chunk |-> run.retrieved[i].chunk,
                                  text |-> run.retrieved[i].text ]] >> ],
           [ role |-> "assistant", content |-> run.answer ] >>,
      metadata |->
        [ run_id |-> run.run_id, label |-> run.label, trust_score |-> run.trust_score,
          top_k |-> run.top_k, model |-> run.model ] ]

\* An export that skips no run.
DatasetLinesEveryRun(runs) == [i \in 1..Len(runs) |-> DatasetRecord(runs[i])]

DatasetLines(runs) ==
    LET labelled == SelectSeq(runs, LAMBDA run : run.label \in VALID_LABELS)
    IN  [i \in 1..Len(labelled) |-> DatasetRecord(labelled[i])]

\* A clear that removes nothing.
ClearedNothing(file) == file

\* clear_runs: os.remove when the file exists.
Cleared(file) == IF file.exists THEN NoLog ELSE file

\* ---------------------------------------------------------------- the index
NoCollection == [exists |-> FALSE, docs |-> << >>]
Collection(docs) == [exists |-> TRUE, docs |-> docs]

\* client.get_or_create_collection("docs")
GetOrCreate(db) == IF db.exists THEN db ELSE Collection(<< >>)

\* _build_index on the collection self.collection refers to: nothing is added
\* when the files give no chunk.
Built(db, files) ==
    IF BuildEntries(files) = << >> THEN db
    ELSE Collection(CollectionAdd(db.docs, BuildEntries(files)))

\* _build_index of src/rag_pipeline.py on the collection.
LegacyBuilt(db, files) ==
    IF LegacyBuildEntries(files) = << >> THEN db
    ELSE Collection(CollectionAdd(db.docs, LegacyBuildEntries(files)))

\* ------------------------------------------------------------- the requests
\* A strip that leaves the blanks.
StripNothing(query) == query

\* str.strip() on the questions tried: "  " is all blanks.
Strip(query) == IF query = "  " THEN "" ELSE query

Idle == [pc |-> "idle"]
NoResponse == [op |-> "none", status |-> 0]

PyBool(b) == IF b THEN "True" ELSE "False"

\* The response of query_rag to an empty question.
EmptyQueryResponse ==
    [ status |-> 200, query |-> "",
      answer |-> Str(<< "Please provide a non-empty question." >>, << >>),
      trust_score |-> 0, chunks |-> << >>, model |-> None,
      calls |-> << >>, outs |-> << >> ]

\* The response of query_rag to a question, from the documents retrieved and
\* the result g of generate; calls and outs record the model calls made.
QueryResponse(q, docs, g, model_used) ==
    [ status |-> 200, query |-> q,
      answer |-> g.answer, trust_score |-> ComputeTrustScore(docs),
      chunks |-> ChunksOut(docs), model |-> model_used,
      calls |-> g.calls, outs |-> g.outs ]

Reply(t, r) == resp' = [resp EXCEPT ![t] = r]

\* The response r of a query endpoint, kept with the request it answers and
\* with what became of the append of the run record while it was served:
\* "ok", "failed" (it raised) or "none" (none was tried).
Answer(op, payload, append, r) == [op |-> op, request |-> payload, append |-> append] @@ r
Appended(io_ok) == IF io_ok THEN "ok" ELSE "failed"

\* The history of the messages built: those of the run run_id are added.
Sent(history, run_id, messages) ==
    (run_id :> {messages[i] : i \in 1..Len(messages)}) @@ history

\* query_rag without the try around log_run_to_file: a failed append is a 500.
QueryRagNoTry(t, payload, out1, out2, io_ok) ==
    /\ th[t] = Idle
    /\ LET q == Strip(payload.query)
           docs == Retrieve(dbDocs.docs, payload.top_k)
           g == Generate(pipeline, q, docs, PyBool(payload.use_finetuned), None, out1, out2)
           model_used == ModelNameForRun(pipeline, payload.use_finetuned)
           record == RunRecord(nextId + 1, q, g.answer, ComputeTrustScore(docs), docs,
                               ChunksOut(docs), payload.top_k, model_used)
       IN  IF q = ""
           THEN Reply(t, Answer("query", payload, "none", EmptyQueryResponse))
                /\ UNCHANGED <<log, nextId, sent, call>>
           ELSE IF collStale \/ payload.top_k < 1
           THEN Reply(t, Answer("query", payload, "none", [status |-> 500]))
                /\ UNCHANGED <<log, nextId, sent, call>>
           ELSE /\ nextId < MaxRuns
                /\ nextId' = nextId + 1
                /\ log' = IF io_ok THEN AppendLine(log, Dumps(record)) ELSE log
                /\ sent' = IF io_ok THEN Sent(sent, nextId + 1, g.messages) ELSE sent
                /\ Reply(t, Answer("query", payload, Appended(io_ok),
                                    IF io_ok THEN QueryResponse(q, docs, g, model_used)
                                    ELSE [status |-> 500]))
    /\ UNCHANGED <<pipeline, corpus, dbDocs, collStale, th, gen, cleared, chunked, app, dataset, call>>

\* POST /api/query (query_rag), from the request to the response.  out1 and
\* out2 are what the model calls give and io_ok whether the append succeeds.
\* Retrieval raises (a 500) when self.collection was deleted and when
\* n_results is not positive.  The handler touches the index once (the query)
\* and the log once (the append), so it is one step.
QueryRag(t, payload, out1, out2, io_ok) ==
    /\ th[t] = Idle
    /\ LET q == Strip(payload.query)
           docs == Retrieve(dbDocs.docs, payload.top_k)
           g == Generate(pipeline, q, docs, PyBool(payload.use_finetuned), None, out1, out2)
           model_used == ModelNameForRun(pipeline, payload.use_finetuned)
           record == RunRecord(nextId + 1, q, g.answer, ComputeTrustScore(docs), docs,
                               ChunksOut(docs), payload.top_k, model_used)
       IN  IF q = ""
           THEN Reply(t, Answer("query", payload, "none", EmptyQueryResponse))
                /\ UNCHANGED <<log, nextId, sent, call>>
           ELSE IF collStale \/ payload.top_k < 1
           THEN Reply(t, Answer("query", payload, "none", [status |-> 500]))
                /\ UNCHANGED <<log, nextId, sent, call>>
           ELSE /\ nextId < MaxRuns
                /\ nextId' = nextId + 1
                /\ log' = IF io_ok THEN AppendLine(log, Dumps(record)) ELSE log
                /\ sent' = IF io_ok THEN Sent(sent, nextId + 1, g.messages) ELSE sent
                /\ Reply(t, Answer("query", payload, Appended(io_ok),
                                    QueryResponse(q, docs, g, model_used)))
    /\ UNCHANGED <<pipeline, corpus, dbDocs, collStale, th, gen, cleared, chunked, app, dataset, call>>

\* query_rag_rerank logging the documents in the order retrieval gave them.
QueryRagRerankLogsRetrieved(t, payload, out1, out2, io_ok) ==
    /\ th[t] = Idle
    /\ LET q == Strip(payload.query)
           docs == Retrieve(dbDocs.docs, payload.top_k)
           source_scores == ComputeSourceQualityScores(log)
           reranked_docs == Reranked(docs, source_scores)
           g == Generate(pipeline, q, reranked_docs, PyBool(payload.use_finetuned), None,
                         out1, out2)
           model_used == ModelNameForRun(pipeline, payload.use_finetuned)
           record == RunRecord(nextId + 1, q, g.answer, ComputeTrustScore(reranked_docs),
                               docs, ChunksOut(reranked_docs), payload.top_k,
                               model_used)
       IN  IF q = ""
           THEN Reply(t, Answer("query_rerank", payload, "none", EmptyQueryResponse))
                /\ UNCHANGED <<log, nextId, sent, call>>
           ELSE IF collStale \/ payload.top_k < 1
           THEN Reply(t, Answer("query_rerank", payload, "none", [status |-> 500]))
                /\ UNCHANGED <<log, nextId, sent, call>>
           ELSE /\ nextId < MaxRuns
                /\ nextId' = nextId + 1
                /\ log' = IF io_ok THEN AppendLine(log, Dumps(record)) ELSE log
                /\ sent' = IF io_ok THEN Sent(sent, nextId + 1, g.messages) ELSE sent
                /\ Reply(t, Answer("query_rerank", payload, Appended(io_ok),
                                    [retrieved |-> docs, source_scores |-> source_scores]
                                    @@ QueryResponse(q, reranked_docs, g, model_used)))
    /\ UNCHANGED <<pipeline, corpus, dbDocs, collStale, th, gen, cleared, chunked, app, dataset, call>>

\* POST /api/query_rerank (query_rag_rerank), from the request to the response:
\* query_rag with the documents re-ranked by the scores of their sources, which
\* are computed from the log as it is when the request is served.  The
\* response is kept with the handler's locals `docs` (as `retrieved`) and
\* `source_scores`.
QueryRagRerank(t, payload, out1, out2, io_ok) ==
    /\ th[t] = Idle
    /\ LET q == Strip(payload.query)
           docs == Retrieve(dbDocs.docs, payload.top_k)
           source_scores == ComputeSourceQualityScores(log)
           reranked_docs == Reranked(docs, source_scores)
           g == Generate(pipeline, q, reranked_docs, PyBool(payload.use_finetuned), None,
                         out1, out2)
           model_used == ModelNameForRun(pipeline, payload.use_finetuned)
           record == RunRecord(nextId + 1, q, g.answer, ComputeTrustScore(reranked_docs),
                               reranked_docs, ChunksOut(reranked_docs), payload.top_k,
                               model_used)
       IN  IF q = ""
           THEN Reply(t, Answer("query_rerank", payload, "none", EmptyQueryResponse))
                /\ UNCHANGED <<log, nextId, sent, call>>
           ELSE IF collStale \/ payload.top_k < 1
           THEN Reply(t, Answer("query_rerank", payload, "none", [status |-> 500]))
                /\ UNCHANGED <<log, nextId, sent, call>>
           ELSE /\ nextId < MaxRuns
                /\ nextId' = nextId + 1
                /\ log' = IF io_ok THEN AppendLine(log, Dumps(record)) ELSE log
                /\ sent' = IF io_ok THEN Sent(sent, nextId + 1, g.messages) ELSE sent
                /\ Reply(t, Answer("query_rerank", payload, Appended(io_ok),
                                    [retrieved |-> docs, source_scores |-> source_scores]
                                    @@ QueryResponse(q, reranked_docs, g, model_used)))
    /\ UNCHANGED <<pipeline, corpus, dbDocs, collStale, th, gen, cleared, chunked, app, dataset, call>>

\* GET /api/runs (list_runs)
ListRuns(t, limit) ==
    /\ th[t] = Idle
    /\ Reply(t, [op |-> "list", status |-> 200, limit |-> limit,
                 records |-> ReadRunsFromFile(log, limit)])
    /\ UNCHANGED <<log, nextId, pipeline, corpus, dbDocs, collStale, th, gen, cleared,
                   chunked, app, dataset, sent, call>>

\* export_dataset opening the dataset file before it looks at the runs.
ExportDatasetWritesFirst(t) ==
    /\ th[t] = Idle
    /\ LET runs == ReadAllRuns(log)
           lines == DatasetLines(runs)
       IN  /\ dataset' = File(lines)
           /\ IF runs = << >> THEN Reply(t, [op |-> "export", status |-> 404])
              ELSE IF lines = << >> THEN Reply(t, [op |-> "export", status |-> 400])
              ELSE Reply(t, [op |-> "export", status |-> 200, lines |-> lines])
    /\ UNCHANGED <<log, nextId, pipeline, corpus, dbDocs, collStale, th, gen, cleared,
                   chunked, app, sent, call>>

\* GET /api/export-dataset (export_dataset): 404 without runs, 400 without a
\* run with a valid label, and otherwise the examples, which are written to
\* the dataset file too.
ExportDataset(t) ==
    /\ th[t] = Idle
    /\ LET runs == ReadAllRuns(log)
           lines == DatasetLines(runs)
       IN  IF runs = << >>
           THEN Reply(t, [op |-> "export", status |-> 404]) /\ UNCHANGED dataset
           ELSE IF lines = << >>
           THEN Reply(t, [op |-> "export", status |-> 400]) /\ UNCHANGED dataset
           ELSE /\ dataset' = File(lines)
                /\ Reply(t, [op |-> "export", status |-> 200, lines |-> lines])
    /\ UNCHANGED <<log, nextId, pipeline, corpus, dbDocs, collStale, th, gen, cleared,
                   chunked, app, sent, call>>

\* PATCH /api/runs/{run_id} (update_run_label), first half: the label check,
\* the existence check and the read of the whole file into new_lines.  An
\* error response ends the request here.  The file is small and is read in
\* one step; the write below is one step too.
PatchRead(t, run_id, payload) ==
    /\ th[t] = Idle
    /\ LET status == PatchStatus(log, run_id, payload.label)
       IN  IF status = 200
           THEN /\ th' = [th EXCEPT ![t] =
                            [ pc |-> "patch_write", run_id |-> run_id,
                              label |-> payload.label, notes |-> payload.notes,
                              new_lines |-> PatchedLines(log.lines, run_id,
                                                         payload.label, payload.notes) ]]
                /\ UNCHANGED resp
           ELSE /\ Reply(t, [op |-> "patch", status |-> status, run_id |-> run_id,
                             label |-> payload.label, notes |-> payload.notes])
                /\ UNCHANGED th
    /\ UNCHANGED <<log, nextId, pipeline, corpus, dbDocs, collStale, gen, cleared, chunked, app, dataset, sent, call>>

\* update_run_label, second half: open(LOG_PATH, "w") and the write of new_lines.
PatchWrite(t) ==
    /\ th[t].pc = "patch_write"
    /\ log' = File(th[t].new_lines)
    /\ Reply(t, [op |-> "patch", status |-> 200, run_id |-> th[t].run_id,
                 label |-> th[t].label, notes |-> th[t].notes])
    /\ th' = [th EXCEPT ![t] = Idle]
    /\ UNCHANGED <<nextId, pipeline, corpus, dbDocs, collStale, gen, cleared, chunked, app, dataset, sent, call>>

\* DELETE /api/runs (clear_runs)
ClearRuns(t) ==
    /\ th[t] = Idle
    /\ log' = Cleared(log)
    /\ cleared' = cleared \cup RunIdsOf(log.lines)
    /\ sent' = << >>
    /\ Reply(t, [op |-> "clear", status |-> 200])
    /\ UNCHANGED <<nextId, pipeline, corpus, dbDocs, collStale, th, gen, chunked, app, dataset, call>>

\* The response of a rebuild that succeeded.  `files` records which files
\* _build_index read, and `again` that the response this worker sent before
\* was that of a rebuild from the same files.
RebuildResponse(t) ==
    [ op |-> "rebuild", status |-> 200, files |-> corpus,
      again |-> (resp[t].op = "rebuild" /\ resp[t].status = 200 /\ resp[t].files = corpus) ]

\* POST /api/rebuild (RAGPipeline.rebuild_index), step 1: delete_collection.
\* self.collection still refers to the collection just deleted.
RebuildDelete(t) ==
    /\ th[t] = Idle
    /\ dbDocs' = NoCollection
    /\ collStale' = TRUE
    /\ th' = [th EXCEPT ![t] = [pc |-> "rebuild_create"]]
    /\ UNCHANGED <<log, nextId, pipeline, corpus, resp, gen, cleared, chunked, app, dataset, sent, call>>

\* rebuild_index, step 2: self.collection = get_or_create_collection("docs").
RebuildCreate(t) ==
    /\ th[t].pc = "rebuild_create"
    /\ dbDocs' = GetOrCreate(dbDocs)
    /\ collStale' = FALSE
    /\ th' = [th EXCEPT ![t] = [pc |-> "rebuild_build"]]
    /\ UNCHANGED <<log, nextId, pipeline, corpus, resp, gen, cleared, chunked, app, dataset, sent, call>>

\* rebuild_index, step 3: _build_index reads the files and adds their chunks
\* in one collection.add, which raises (a 500) on a deleted collection.
RebuildBuild(t) ==
    /\ th[t].pc = "rebuild_build"
    /\ IF collStale /\ BuildEntries(Corpora[corpus]) # << >>
       THEN Reply(t, [op |-> "rebuild", status |-> 500]) /\ UNCHANGED dbDocs
       ELSE Reply(t, RebuildResponse(t))
            /\ dbDocs' = Built(dbDocs, Corpora[corpus])
    /\ th' = [th EXCEPT ![t] = Idle]
    /\ UNCHANGED <<log, nextId, pipeline, corpus, collStale, gen, cleared, chunked, app, dataset, sent, call>>

\* The files under data_dir are replaced (outside the program).
EditCorpus(c) ==
    /\ c # corpus
    /\ corpus' = c
    /\ UNCHANGED <<log, nextId, pipeline, dbDocs, collStale, th, resp, gen, cleared, chunked, app, dataset, sent, call>>

\* update_run_label run from the request to the response with no other writer
\* in between.
UpdateRunLabel(t, run_id, payload) ==
    /\ th[t] = Idle
    /\ LET status == PatchStatus(log, run_id, payload.label)
       IN  /\ log' = IF status = 200
                     THEN File(PatchedLines(log.lines, run_id, payload.label, payload.notes))
                     ELSE log
           /\ Reply(t, [op |-> "patch", status |-> status, run_id |-> run_id,
                        label |-> payload.label, notes |-> payload.notes])
    /\ UNCHANGED <<nextId, pipeline, corpus, dbDocs, collStale, th, gen, cleared, chunked, app, dataset, sent, call>>

\* rebuild_index without delete_collection.
RebuildIndexNoDelete(t) ==
    /\ th[t] = Idle
    /\ dbDocs' = Built(GetOrCreate(dbDocs), Corpora[corpus])
    /\ collStale' = FALSE
    /\ Reply(t, RebuildResponse(t))
    /\ UNCHANGED <<log, nextId, pipeline, corpus, th, gen, cleared, chunked, app, dataset, sent, call>>

\* rebuild_index with a chunk counter that is kept from one build to the next.
RebuildIndexCounterKept(t) ==
    /\ th[t] = Idle
    /\ dbDocs' = Collection(BuildFrom(Corpora[corpus], 1,
                     IF dbDocs.docs = << >> THEN 0
                     ELSE dbDocs.docs[Len(dbDocs.docs)].chunk + 1))
    /\ collStale' = FALSE
    /\ Reply(t, RebuildResponse(t))
    /\ UNCHANGED <<log, nextId, pipeline, corpus, th, gen, cleared, chunked, app, dataset, sent, call>>

\* rebuild_index run from the request to the response with no other request
\* in between.
RebuildIndex(t) ==
    /\ th[t] = Idle
    /\ dbDocs' = Built(GetOrCreate(NoCollection), Corpora[corpus])
    /\ collStale' = FALSE
    /\ Reply(t, RebuildResponse(t))
    /\ UNCHANGED <<log, nextId, pipeline, corpus, th, gen, cleared, chunked, app, dataset, sent, call>>

\* The Streamlit app (src/app.py).  Its session state after the first run of
\* the script: the pipeline (of src/rag_pipeline.py; client is whether it has
\* an OpenAI client) and the last_* keys.
NoApp == [started |-> FALSE]
AppSession(client) ==
    [ started |-> TRUE, client |-> client, last_answer |-> NoAnswer,
      last_docs |-> << >>, last_query |-> "", last_k |-> 3 ]

\* One run of the script of src/app.py: the index is rebuilt when the
\* "Rebuild index" box is checked, and when "Run" was pressed on a question
\* that is not blank, the question is retrieved for and answered and the
\* result is kept in the session state.
AppRerun(rebuild, run, query, k, out) ==
    /\ app.started
    /\ LET db == IF rebuild THEN LegacyBuilt(GetOrCreate(NoCollection), Corpora[corpus])
                 ELSE dbDocs
           docs == LegacyRetrieve(db.docs, k)
       IN  /\ dbDocs' = db
           /\ app' = IF run /\ Strip(query) # ""
                     THEN [app EXCEPT !.last_answer = LegacyGenerate(app.client, query, docs, out),
                                      !.last_docs = docs,
                                      !.last_query = query,
                                      !.last_k = k]
                     ELSE app
    /\ UNCHANGED <<log, nextId, pipeline, corpus, collStale, th, resp, gen, cleared,
                   chunked, dataset, sent, call>>

\* A direct call of RAGPipeline.generate.
NoGen == [called |-> FALSE]
DocLists ==
    { << >>, Retrieve(BuildEntries(Corpora[1]), 1), Retrieve(BuildEntries(Corpora[1]), 2) }

GenerateCall(docs, use_finetuned, force_model, out1, out2) ==
    /\ gen' = [ called |-> TRUE, docs |-> docs, use_finetuned |-> use_finetuned,
                force_model |-> force_model,
                result |-> Generate(pipeline, "q", docs, use_finetuned, force_model,
                                    out1, out2) ]
    /\ UNCHANGED <<log, nextId, pipeline, corpus, dbDocs, collStale, th, resp, cleared, chunked, app, dataset, sent, call>>

\* -------------------------------------------------------------- the helpers
\* A float that is a quotient of two integers is kept as the quotient; 0.0 is
\* 0 / 1.  Quotients are compared by their cross products.
Quotient(num, den) == [num |-> num, den |-> den]
Zero == Quotient(0, 1)

\* sum(1 for x in labels[:k] if x)
TrueAtK(labels, k) ==
    LET labels_at_k == PySlice(Len(labels), 0, k)
    IN  Cardinality({i \in (labels_at_k.from + 1)..labels_at_k.to : labels[i]})

\* precision_at_k dividing by the number of labels looked at.
PrecisionOverSlice(labels, k) ==
    IF labels = << >> \/ k = 0 THEN Zero
    ELSE Quotient(TrueAtK(labels, k), Min(k, Len(labels)))

\* precision_at_k (src/metrics.py)
PrecisionAtK(labels, k) ==
    IF labels = << >> \/ k = 0 THEN Zero
    ELSE Quotient(TrueAtK(labels, k), k)

\* recall_at_k dividing by k.
RecallOverK(labels, k) ==
    IF labels = << >> THEN Zero
    ELSE LET total_relevant == TrueAtK(labels, Len(labels))
         IN  IF total_relevant = 0 THEN Zero
             ELSE Quotient(TrueAtK(labels, k), Max(1, k))

\* recall_at_k (src/metrics.py)
RecallAtK(labels, k) ==
    IF labels = << >> THEN Zero
    ELSE LET total_relevant == TrueAtK(labels, Len(labels))
         IN  IF total_relevant = 0 THEN Zero
             ELSE Quotient(TrueAtK(labels, k), total_relevant)

\* Direct calls of the helpers.
NoCall == [fn |-> "none"]

RelevanceLabelCall(distance) ==
    /\ call' = [fn |-> "relevance_label", distance |-> distance,
                result |-> RelevanceLabel(distance)]
    /\ UNCHANGED <<log, nextId, pipeline, corpus, dbDocs, collStale, th, resp, gen, cleared,
                   chunked, app, dataset, sent>>

PrecisionAtKCall(labels, k) ==
    /\ call' = [fn |-> "precision_at_k", labels |-> labels, k |-> k,
                result |-> PrecisionAtK(labels, k)]
    /\ UNCHANGED <<log, nextId, pipeline, corpus, dbDocs, collStale, th, resp, gen, cleared,
                   chunked, app, dataset, sent>>

RecallAtKCall(labels, k) ==
    /\ call' = [fn |-> "recall_at_k", labels |-> labels, k |-> k,
                result |-> RecallAtK(labels, k)]
    /\ UNCHANGED <<log, nextId, pipeline, corpus, dbDocs, collStale, th, resp, gen, cleared,
                   chunked, app, dataset, sent>>

\* ------------------------------------------------------- the specifications
\* The log a server finds when it starts: none, an empty one, or lines of
\* earlier runs, some of them damaged.
InitialLogs ==
    { NoLog, File(<< >>), File(<< BadLine >>),
      File(<< Dumps(OldRecord), BlankLine >>) }

\* The state after main.py is imported: the pipeline is constructed with
\* use_finetuned_by_default = True, and the persisted collection is built
\* from the files when it is empty.
InitWith(pipelines, versions, logs) ==
    /\ log \in logs
    /\ nextId = 0
    /\ pipeline \in pipelines
    /\ corpus \in versions
    /\ dbDocs = Built(Collection(<< >>), Corpora[corpus])
    /\ collStale = FALSE
    /\ th = [t \in Threads |-> Idle]
    /\ resp = [t \in Threads |-> NoResponse]
    /\ gen = NoGen
    /\ cleared = {}
    /\ chunked = NoChunk
    /\ app = NoApp
    /\ dataset = NoLog
    /\ sent = << >>
    /\ call = NoCall

AppPipelines == {p \in Pipelines : p.use_finetuned_by_default}
FullPipeline == CHOOSE p \in AppPipelines : p.client /\ p.ft_model = FT_MODEL

\* The label requests tried: two valid labels and one that is not valid, with
\* and without notes.
LabelRequests == [label : {"good", "off_topic", "great"}, notes : {None, "n"}]
RaceLabelRequests == {[label |-> "good", notes |-> "n"], [label |-> "off_topic", notes |-> None]}
\* The questions tried: one question and one that is blank once stripped.
Questions == {"q", "  "}
\* The same with the empty question.
AllQuestions == Questions \cup {""}
PlainPayloads == [query : Questions, top_k : {1}, use_finetuned : {TRUE}]
AllPayloads == [query : AllQuestions, top_k : {2}, use_finetuned : BOOLEAN]
\* The requests that ask the question "q" for one of top_ks chunks, with the
\* model choice use_finetuned.
PayloadsFor(top_ks, use_finetuned) ==
    [query : {"q"}, top_k : top_ks, use_finetuned : {use_finetuned}]
\* The label requests that give a valid label and no notes.
ValidLabelRequests == [label : VALID_LABELS, notes : {None}]

\* Spec: the run log under sequential executions.  One worker serves each
\* request to its response before the next one starts; the model service
\* answers every call.
Init == InitWith({FullPipeline}, {1}, InitialLogs)

Next ==
    \/ \E payload \in PlainPayloads, io_ok \in BOOLEAN :
          QueryRag(1, payload, "text", "text", io_ok)
    \/ \E run_id \in RunIds \cup {0}, payload \in LabelRequests :
          UpdateRunLabel(1, run_id, payload)
    \/ ClearRuns(1)

Spec == Init /\ [][Next]_vars

\* QuerySpec: the two query endpoints under sequential executions, for every
\* pipeline configuration, with and without chunks in the index, and for
\* every outcome of the model calls.
QueryInit == InitWith(AppPipelines, {1, 3}, {NoLog})

QueryNext ==
    \/ \E payload \in AllPayloads, out1 \in Outcomes, out2 \in {"error", "text"},
          io_ok \in BOOLEAN :
          \/ QueryRag(1, payload, out1, out2, io_ok)
          \/ QueryRagRerank(1, payload, out1, out2, io_ok)
    \/ ClearRuns(1)

QuerySpec == QueryInit /\ [][QueryNext]_vars

\* GenSpec: direct calls of RAGPipeline.generate, for every pipeline
\* configuration and every argument.
GenInit == InitWith(Pipelines, {1}, {NoLog})

GenNext ==
    \E docs \in DocLists, use_finetuned \in {None, "True", "False"},
       force_model \in {None, OTHER_MODEL, BASE_MODEL},
       out1 \in Outcomes, out2 \in Outcomes :
       GenerateCall(docs, use_finetuned, force_model, out1, out2)

GenSpec == GenInit /\ [][GenNext]_vars

\* LogRaceSpec: the run log under concurrent requests.  Each worker thread
\* serves one request at a time; the steps of different workers interleave.
LogRaceInit == InitWith({FullPipeline}, {1}, {NoLog})

LogRaceNext ==
    \E t \in Threads :
        \/ \E payload \in PayloadsFor({1}, TRUE) :
              QueryRag(t, payload, "text", "text", TRUE)
        \/ \E run_id \in RunIds, payload \in RaceLabelRequests :
              PatchRead(t, run_id, payload)
        \/ PatchWrite(t)
        \/ ClearRuns(t)

LogRaceSpec == LogRaceInit /\ [][LogRaceNext]_vars

\* IndexRaceSpec: the index under concurrent requests: rebuilds, queries and
\* changes of the files.
IndexRaceInit == InitWith({FullPipeline}, {1, 2}, {NoLog})

IndexRaceNext ==
    \/ \E t \in Threads :
        \/ \E payload \in PayloadsFor({1, 2}, TRUE) :
              QueryRag(t, payload, "text", "text", TRUE)
        \/ RebuildDelete(t)
        \/ RebuildCreate(t)
        \/ RebuildBuild(t)
    \/ \E c \in {1, 2} : EditCorpus(c)

IndexRaceSpec == IndexRaceInit /\ [][IndexRaceNext]_vars

\* ChunkSpec: calls of RAGPipeline._chunk for every text of up to MaxWords
\* words and every chunk_size and overlap tried, run one iteration at a time.
ChunkSizes == (0 - 1)..3
Overlaps == (0 - 1)..3

ChunkInit ==
    /\ log = NoLog
    /\ nextId = 0
    /\ pipeline = FullPipeline
    /\ corpus = 1
    /\ dbDocs = Built(Collection(<< >>), Corpora[corpus])
    /\ collStale = FALSE
    /\ th = [t \in Threads |-> Idle]
    /\ resp = [t \in Threads |-> NoResponse]
    /\ gen = NoGen
    /\ cleared = {}
    /\ chunked \in {ChunkCall(n, chunk_size, overlap) :
                        n \in 0..MaxWords, chunk_size \in ChunkSizes, overlap \in Overlaps}
    /\ app = NoApp
    /\ dataset = NoLog
    /\ sent = << >>
    /\ call = NoCall

ChunkNext == ChunkLoop \/ ChunkReturn

ChunkSpec == ChunkInit /\ [][ChunkNext]_vars

\* ChunkLiveSpec: the same, with the interpreter running the call on: a loop
\* iteration or a return that can be taken is taken.
ChunkLiveSpec == ChunkSpec /\ WF_vars(ChunkNext)

\* IndexSpec: the index under sequential executions: rebuilds, changes of the
\* files, and queries for fewer and for more chunks than the index holds.
IndexInit == InitWith({FullPipeline}, {1}, {NoLog})

IndexNext ==
    \/ \E payload \in PayloadsFor({1, 5}, TRUE) :
          QueryRag(1, payload, "text", "text", TRUE)
    \/ RebuildIndex(1)
    \/ \E c \in CorpusVersions : EditCorpus(c)

IndexSpec == IndexInit /\ [][IndexNext]_vars

\* AppSpec: the Streamlit app (src/app.py with src/rag_pipeline.py): runs of
\* its script, and changes of the files.
AppInit ==
    /\ log = NoLog
    /\ nextId = 0
    /\ pipeline = FullPipeline
    /\ corpus \in CorpusVersions
    /\ dbDocs = LegacyBuilt(Collection(<< >>), Corpora[corpus])
    /\ collStale = FALSE
    /\ th = [t \in Threads |-> Idle]
    /\ resp = [t \in Threads |-> NoResponse]
    /\ gen = NoGen
    /\ cleared = {}
    /\ chunked = NoChunk
    /\ app \in {AppSession(client) : client \in BOOLEAN}
    /\ dataset = NoLog
    /\ sent = << >>
    /\ call = NoCall

AppNext ==
    \/ \E rebuild \in BOOLEAN, run \in BOOLEAN, query \in Questions, k \in {1, 3},
          out \in {"error", "blank", "text"} :
          AppRerun(rebuild, run, query, k, out)
    \/ \E c \in CorpusVersions : EditCorpus(c)

AppSpec == AppInit /\ [][AppNext]_vars

\* StoreSpec: the run log under sequential executions of every operation on
\* it: queries on both endpoints, label patches, listings, exports and clears.
\* The limits GET /api/runs is asked with; 50 is the default.
ListLimits == {0, 1, 50}

StoreInit ==
    InitWith({FullPipeline}, {1}, {NoLog, File(<< Dumps(OldRecord), BadLine >>)})

StoreNext ==
    \/ \E io_ok \in BOOLEAN :
          \/ \E payload \in PayloadsFor({1}, TRUE) :
                QueryRag(1, payload, "text", "text", io_ok)
          \/ \E payload \in PayloadsFor({2}, FALSE) :
                QueryRagRerank(1, payload, "text", "text", io_ok)
    \/ \E run_id \in RunIds \cup {0}, payload \in RaceLabelRequests :
          UpdateRunLabel(1, run_id, payload)
    \/ \E limit \in ListLimits : ListRuns(1, limit)
    \/ ExportDataset(1)
    \/ ClearRuns(1)

StoreSpec == StoreInit /\ [][StoreNext]_vars

\* RerankSpec: re-ranked queries and the labels their source scores come
\* from, under sequential executions, over two sets of files: in the first
\* the distances of the chunks differ, in the second two chunks are equally
\* near.  Queries ask for two or three chunks, every valid label is given.
RerankInit ==
    InitWith({FullPipeline}, {1, 4}, {NoLog, File(<< Dumps(GreatRecord) >>)})

RerankNext ==
    \/ \E payload \in PayloadsFor({2, 3}, FALSE) :
          QueryRagRerank(1, payload, "text", "text", TRUE)
    \/ \E run_id \in RunIds, payload \in ValidLabelRequests :
          UpdateRunLabel(1, run_id, payload)

RerankSpec == RerankInit /\ [][RerankNext]_vars

\* ScoreSpec: the source scores under sequential executions of re-ranked
\* queries, patches with every valid label and clears, the requests being
\* served by either of two workers.
ScoreInit == InitWith({FullPipeline}, {1}, {NoLog})

ScoreNext ==
    \E t \in {1, 2} :
        \/ \E payload \in PayloadsFor({2}, FALSE) :
              QueryRagRerank(t, payload, "text", "text", TRUE)
        \/ \E run_id \in RunIds, payload \in ValidLabelRequests :
              UpdateRunLabel(t, run_id, payload)
        \/ ClearRuns(t)

ScoreSpec == ScoreInit /\ [][ScoreNext]_vars

\* HelperSpec: direct calls of relevance_label, precision_at_k and
\* recall_at_k: every distance of the cosine range and a missing one, every
\* list of up to MaxLabels labels, every k from -1 to one past the longest list.
Distances == {NoDistance} \cup 0..MaxDistance
LabelLists == UNION { [1..n -> BOOLEAN] : n \in 0..MaxLabels }
Ks == (0 - 1)..(MaxLabels + 1)

HelperInit == InitWith({FullPipeline}, {1}, {NoLog})

HelperNext ==
    \/ \E distance \in Distances : RelevanceLabelCall(distance)
    \/ \E labels \in LabelLists, k \in Ks : PrecisionAtKCall(labels, k)
    \/ \E labels \in LabelLists, k \in Ks : RecallAtKCall(labels, k)

HelperSpec == HelperInit /\ [][HelperNext]_vars

\* ------------------------------------------------------------- properties
\* A step that ends an update_run_label request of worker t with a response.
PatchAnswered(t) == resp'[t] # resp[t] /\ resp'[t].op = "patch"
\* A step that ends a request of worker t to a query endpoint with a response.
QueryAnswered(t) ==
    /\ resp'[t].op \in {"query", "query_rerank"}
    /\ (resp'[t] # resp[t] \/ nextId' # nextId)
\* A step after which the last response of worker t is that of a rebuild that
\* succeeded on the files as they are.
RebuildAnswered(t) ==
    resp'[t].op = "rebuild" /\ resp'[t].status = 200 /\ resp'[t].files = corpus
\* A step in which worker t writes the new_lines of its update_run_label.
PatchWrites(t) == th[t].pc = "patch_write" /\ th'[t] = Idle

RecordOf(lines, run_id) ==
    LET records == Records(lines)
    IN  records[CHOOSE i \in 1..Len(records) : records[i].run_id = run_id]

\* C1 (Spec): a patch of a known run_id, with no other request in between,
\* leaves the store with the same records in the same order, the matching
\* record changed in its label and notes only and every other record as it was.
C1_PatchChangesOnlyLabelAndNotes ==
    [][ (PatchAnswered(1) /\ resp'[1].status = 200) =>
           LET before == Records(log.lines)
               after == Records(log'.lines)
               r == resp'[1]
           IN  /\ r.run_id \in RunIdsOf(log.lines)
               /\ Len(after) = Len(before)
               /\ \A i \in 1..Len(before) :
                     IF before[i].run_id = r.run_id
                     THEN after[i] = [before[i] EXCEPT !.label = r.label,
                                                       !.eval_notes = r.notes]
                     ELSE after[i] = before[i] ]_vars

\* A patch has succeeded on a store that holds another record with another label.
C1_Witness ==
    /\ resp[1].op = "patch" /\ resp[1].status = 200
    /\ \E i, j \in 1..Len(Records(log.lines)) :
          /\ i # j
          /\ Records(log.lines)[i].run_id = resp[1].run_id
          /\ Records(log.lines)[i].label = resp[1].label
          /\ Records(log.lines)[i].eval_notes = resp[1].notes
          /\ Records(log.lines)[j].label # resp[1].label

\* C2 (LogRaceSpec): a record appended while a patch is between its read and
\* its write is still in the store after the patch: the write of a patch
\* removes no record of the store.
C2_AppendSurvivesPatch ==
    [][ \A t \in Threads :
           PatchWrites(t) => RunIdsOf(log.lines) \subseteq RunIdsOf(log'.lines) ]_vars

\* C3 (LogRaceSpec): concurrent patches of different run_ids both take
\* effect: the write of one patch leaves the label and the notes that another
\* patch gave to another record as they are.
C3_ConcurrentPatchesBothTakeEffect ==
    [][ \A t \in Threads :
           PatchWrites(t) =>
              \A id \in (RunIdsOf(log.lines) \cap RunIdsOf(log'.lines)) \ {th[t].run_id} :
                 /\ RecordOf(log'.lines, id).label = RecordOf(log.lines, id).label
                 /\ RecordOf(log'.lines, id).eval_notes = RecordOf(log.lines, id).eval_notes
       ]_vars

\* C4 (LogRaceSpec): once a clear has completed, no record it removed is in
\* the store again, whatever patch was in progress.
C4_ClearedRecordsStayCleared ==
    RunIdsOf(log.lines) \cap cleared = {}

\* C5 (IndexRaceSpec): every retrieval succeeds and returns the nearest chunks
\* of a complete index, the one built from the files as they were or as they
\* are: never those of a deleted, an empty or a partly filled collection.
C5_RetrieveSeesCompleteIndex ==
    \A t \in Threads :
        resp[t].op = "query" =>
            /\ resp[t].status = 200
            /\ \E c \in {1, 2}, k \in {1, 2} :
                  resp[t].chunks = ChunksOut(Retrieve(BuildEntries(Corpora[c]), k))

\* A model call that returned an answer (_generate_with_openai gave a string).
TierSucceeded(out) == out \in {"blank", "text"}
\* The tier that produced the answer of a generate call, from the calls made.
Producer(calls, outs) ==
    IF \E i \in 1..Len(outs) : TierSucceeded(outs[i])
    THEN calls[CHOOSE i \in 1..Len(outs) :
                  TierSucceeded(outs[i]) /\ \A j \in 1..(i - 1) : ~TierSucceeded(outs[j])]
    ELSE "offline template"

IsBaseline(answer) == answer.head # << >> /\ answer.head[1] = "baseline"

\* C6 (QuerySpec): the model field of a query's response, and of the run
\* record it logs, is the name of the model that produced the answer; when the
\* fine-tuned model fails and the base model answers, it is the base model's.
C6_ModelFieldNamesProducer ==
    /\ \A t \in Threads :
          (resp[t].op = "query" /\ resp[t].status = 200 /\ resp[t].calls # << >>
             /\ Producer(resp[t].calls, resp[t].outs) # "offline template")
          => resp[t].model = Producer(resp[t].calls, resp[t].outs)
    /\ \A i \in 1..Len(Records(log.lines)) :
          LET record == Records(log.lines)[i]
          IN  (record.answer.head # << >> /\ record.answer.head[1] = "reply")
              => record.model = record.answer.head[2]

\* C7 (GenSpec): generate returns a string that is not empty.
C7_GenerateReturnsNonEmpty ==
    gen.called => (gen.result.answer.kind = "str" /\ ~IsEmptyStr(gen.result.answer))

\* C8 (GenSpec): the tiers of one generate call.  No model is called without a
\* client and at most two are; the first call is the primary model's; the
\* second is made exactly when the first gave no answer and the primary model
\* is not the base model, and it is the base model's; the offline template is
\* the answer exactly when no call gave one, and otherwise the answer is that
\* of the first call that gave one.
C8_TiersInOrder ==
    gen.called =>
       LET calls == gen.result.calls
           outs == gen.result.outs
           answer == gen.result.answer
           primary == IF gen.force_model # None THEN gen.force_model
                      ELSE IF (gen.use_finetuned = "True"
                               \/ (gen.use_finetuned = None
                                   /\ pipeline.use_finetuned_by_default))
                              /\ pipeline.ft_model # None
                           THEN pipeline.ft_model
                           ELSE pipeline.base_model
       IN  /\ Len(calls) <= 2 /\ Len(outs) = Len(calls)
           /\ ~pipeline.client => calls = << >>
           /\ pipeline.client => (Len(calls) >= 1 /\ calls[1] = primary)
           /\ Len(calls) = 2 <=> (pipeline.client /\ ~TierSucceeded(outs[1])
                                  /\ primary # pipeline.base_model)
           /\ Len(calls) = 2 => calls[2] = pipeline.base_model
           /\ IsBaseline(answer) <=> \A i \in 1..Len(outs) : ~TierSucceeded(outs[i])
           /\ ~IsBaseline(answer) =>
                 answer.head \in {<< >>, << "reply", Producer(calls, outs) >>}

\* A call in which the primary and the base model both failed and the offline
\* template answered.
C8_Witness ==
    /\ gen.called
    /\ Len(gen.result.calls) = 2
    /\ gen.result.calls[1] = FT_MODEL
    /\ IsBaseline(gen.result.answer)

\* C9 (Spec): a patch with a valid label for a run_id that no record of the
\* store has, or without a log file, is answered 404 and leaves the log file
\* as it was.
C9_UnknownRunIsNotFound ==
    [][ ( /\ PatchAnswered(1)
          /\ resp'[1].label \in VALID_LABELS
          /\ (~log.exists \/ resp'[1].run_id \notin RunIdsOf(log.lines)) )
        => (resp'[1].status = 404 /\ log' = log) ]_vars

\* A 404 for a valid label on a log that holds records, none of that run_id.
C9_Witness ==
    /\ resp[1].op = "patch" /\ resp[1].status = 404
    /\ resp[1].label \in VALID_LABELS
    /\ log.exists /\ Records(log.lines) # << >>
    /\ Len(log.lines) > Len(Records(log.lines))
    /\ resp[1].run_id \notin RunIdsOf(log.lines)

\* C10 (Spec): a patch whose label is not a valid label is answered 400 and
\* leaves the log file as it was, with or without a log, for a known and for
\* an unknown run_id.
C10_InvalidLabelRejected ==
    [][ (PatchAnswered(1) /\ resp'[1].label \notin VALID_LABELS)
        => (resp'[1].status = 400 /\ log' = log) ]_vars

\* A 400 for a run_id that the store holds.
C10_Witness ==
    /\ resp[1].op = "patch" /\ resp[1].status = 400
    /\ resp[1].label \notin VALID_LABELS
    /\ resp[1].run_id \in RunIdsOf(log.lines)

\* C11 (AppSpec): after every build and rebuild, the chunk numbers of the
\* index increase in build order across all files, so that no two chunks have
\* the same number, and no two chunks have the same identifier.
C11_ChunkNumbersUnique ==
    \A i, j \in 1..Len(dbDocs.docs) :
        i < j => /\ dbDocs.docs[i].chunk < dbDocs.docs[j].chunk
                 /\ dbDocs.docs[i].id # dbDocs.docs[j].id

\* C12 (ChunkSpec): what _chunk returns for a text of n words, with
\* s = max(1, chunk_size - overlap): the windows words[j*s : j*s + chunk_size]
\* for j = 0, 1, ... while j*s < n, in that order; for chunk_size >= 1 the
\* window j starts at word j*s and ends chunk_size words on or at the end of
\* the text (the last one is kept though shorter); no chunk for an empty text;
\* and for chunk_size >= 1 and overlap >= 0 every word is in some chunk.
C12_ChunkWindows ==
    chunked.pc = "done" =>
       LET n == chunked.n
           chunk_size == chunked.chunk_size
           s == IF chunked.chunk_size - chunked.overlap >= 1
                THEN chunked.chunk_size - chunked.overlap ELSE 1
           count == (n + s - 1) \div s
           chunks == chunked.chunks
       IN  /\ Len(chunks) = count
           /\ \A j \in 0..(count - 1) :
                 chunks[j + 1] = PySlice(n, j * s, j * s + chunk_size)
           /\ chunk_size >= 1 =>
                 \A j \in 0..(count - 1) :
                    /\ chunks[j + 1].from = j * s
                    /\ chunks[j + 1].to = IF j * s + chunk_size <= n
                                          THEN j * s + chunk_size ELSE n
           /\ n = 0 => chunks = << >>
           /\ (chunk_size >= 1 /\ chunked.overlap >= 0) =>
                 \A w \in 0..(n - 1) :
                    \E j \in 1..count : chunks[j].from <= w /\ w < chunks[j].to

\* A call returned overlapping windows, the last one shorter than chunk_size.
C12_Witness ==
    /\ chunked.pc = "done"
    /\ chunked.overlap >= 1
    /\ Len(chunked.chunks) >= 2
    /\ chunked.chunks[Len(chunked.chunks)].from < chunked.chunks[Len(chunked.chunks) - 1].to
    /\ chunked.chunks[Len(chunked.chunks)].to - chunked.chunks[Len(chunked.chunks)].from
          < chunked.chunk_size

\* C13 (ChunkLiveSpec): every iteration of the loop of _chunk advances i by
\* at least one word, and every call returns, whatever chunk_size and overlap
\* are (overlap >= chunk_size included).
C13_ChunkTerminates ==
    /\ [][ chunked'.chunks # chunked.chunks => chunked'.i >= chunked.i + 1 ]_vars
    /\ <>(chunked.pc = "done")

\* A call with overlap >= chunk_size has returned one window per word.
C13_Witness ==
    /\ chunked.pc = "done"
    /\ chunked.overlap >= chunked.chunk_size
    /\ chunked.n >= 2
    /\ Len(chunked.chunks) = chunked.n

\* C14 (IndexSpec): a rebuild that follows a rebuild from the same files
\* leaves the index with the same number of chunks, with the same identifiers
\* and the same texts in the same order.
C14_RebuildTwiceSame ==
    [][ (RebuildAnswered(1) /\ resp'[1].again /\ corpus' = corpus) =>
           /\ Len(dbDocs'.docs) = Len(dbDocs.docs)
           /\ \A i \in 1..Len(dbDocs.docs) :
                 /\ dbDocs'.docs[i].id = dbDocs.docs[i].id
                 /\ dbDocs'.docs[i].text = dbDocs.docs[i].text ]_vars

\* The index has been rebuilt twice in a row from files that give chunks.
C14_Witness ==
    /\ resp[1].op = "rebuild" /\ resp[1].status = 200
    /\ resp[1].again
    /\ resp[1].files = corpus
    /\ Len(dbDocs.docs) >= 2

\* The entries are exactly the chunks of the files: every entry is a window
\* of a file as it is now, no window is there twice, and every word of every
\* file is in an entry.
ExactlyTheChunksOf(entries, files) ==
    /\ \A i \in 1..Len(entries) :
          \E k \in 1..Len(files) :
             /\ entries[i].source = files[k].name
             /\ entries[i].text.file = files[k].name
             /\ entries[i].text.rev = files[k].rev
             /\ entries[i].text.from < files[k].words
             /\ entries[i].text.from % (CHUNK_SIZE - OVERLAP) = 0
             /\ entries[i].text.to = Min(entries[i].text.from + CHUNK_SIZE, files[k].words)
    /\ \A i, j \in 1..Len(entries) : i # j => entries[i].text # entries[j].text
    /\ \A k \in 1..Len(files) : \A w \in 0..(files[k].words - 1) :
          \E i \in 1..Len(entries) :
             /\ entries[i].text.file = files[k].name /\ entries[i].text.rev = files[k].rev
             /\ entries[i].text.from <= w /\ w < entries[i].text.to

\* C15 (IndexSpec): when a rebuild has completed, with no other request in
\* between, the index holds exactly the chunks of the files as they are: no
\* entry of the index before it is left.
C15_RebuildReplacesIndex ==
    [][ (RebuildAnswered(1) /\ corpus' = corpus) =>
           (dbDocs'.exists /\ ExactlyTheChunksOf(dbDocs'.docs, Corpora[corpus])) ]_vars

\* A rebuild has replaced the index built from the first version of the
\* files by that of the second version.
C15_Witness ==
    /\ resp[1].op = "rebuild" /\ resp[1].status = 200
    /\ resp[1].files = 2 /\ corpus = 2
    /\ dbDocs.docs # << >>
    /\ \A i \in 1..Len(dbDocs.docs) :
          dbDocs.docs[i].source = "a.txt" => dbDocs.docs[i].text.rev = 2

\* C16 (IndexSpec): a retrieval for k >= 1 returns at most k chunks and at
\* most as many as the index holds, each of them (source, number and text) an
\* entry of the index, and none of them twice.
C16_RetrieveBounded ==
    [][ (QueryAnswered(1) /\ resp'[1].status = 200 /\ resp'[1].request.top_k >= 1) =>
           LET chunks == resp'[1].chunks
           IN  /\ Len(chunks) <= resp'[1].request.top_k
               /\ Len(chunks) <= Len(dbDocs.docs)
               /\ \A i \in 1..Len(chunks) :
                     \E j \in 1..Len(dbDocs.docs) :
                        /\ chunks[i].source = dbDocs.docs[j].source
                        /\ chunks[i].chunk = dbDocs.docs[j].chunk
                        /\ chunks[i].text = dbDocs.docs[j].text
               /\ \A i, j \in 1..Len(chunks) : i # j => chunks[i].chunk # chunks[j].chunk
       ]_vars

\* A retrieval for more chunks than the index holds has returned them all.
C16_Witness ==
    /\ resp[1].op = "query" /\ resp[1].status = 200
    /\ resp[1].request.top_k > Len(dbDocs.docs)
    /\ Len(resp[1].chunks) = Len(dbDocs.docs)
    /\ Len(resp[1].chunks) >= 3

\* C17 (QuerySpec): a question that is empty or all blanks, on either query
\* endpoint, is answered with the fixed "Please provide a non-empty question."
\* response, trust score 0, no chunk and no model; no model is called, no run
\* id is drawn and the log is left as it was.
C17_BlankQueryFixedResponse ==
    [][ (QueryAnswered(1) /\ resp'[1].request.query \in {"", "  "}) =>
           /\ resp'[1].status = 200
           /\ resp'[1].answer = Str(<< "Please provide a non-empty question." >>, << >>)
           /\ resp'[1].trust_score = 0
           /\ resp'[1].chunks = << >>
           /\ resp'[1].model = None
           /\ resp'[1].calls = << >>
           /\ resp'[1].append = "none"
           /\ nextId' = nextId
           /\ log' = log ]_vars

\* A question of blanks was answered on /api/query_rerank while the log held
\* a run, and the log holds that run only.
C17_Witness ==
    /\ resp[1].op = "query_rerank"
    /\ resp[1].request.query = "  "
    /\ resp[1].chunks = << >>
    /\ Len(Records(log.lines)) = 1
    /\ dbDocs.docs # << >>

\* The response r to a question is the one its request and the outcomes of
\* its model calls determine, from the index and the log as they are: the
\* chunks retrieved (re-ranked on /api/query_rerank), their trust score, the
\* model name for the request, and the answer generated from them.
DeterminedByRequest(r) ==
    LET q == Strip(r.request.query)
        retrieved == Retrieve(dbDocs.docs, r.request.top_k)
        docs == IF r.op = "query_rerank"
                THEN Reranked(retrieved, ComputeSourceQualityScores(log))
                ELSE retrieved
    IN  /\ r.chunks = ChunksOut(docs)
        /\ r.trust_score = ComputeTrustScore(docs)
        /\ r.model = ModelNameForRun(pipeline, r.request.use_finetuned)
        /\ \E out1 \in Outcomes, out2 \in Outcomes :
              LET g == Generate(pipeline, q, docs, PyBool(r.request.use_finetuned), None,
                                out1, out2)
              IN  g.outs = r.outs /\ g.calls = r.calls /\ g.answer = r.answer

C19_QueryAppendsOneRecord ==
    [][ IF QueryAnswered(1) /\ resp'[1].append = "ok"
        THEN LET before == log.lines
                 after == log'.lines
                 r == resp'[1]
             IN  /\ Len(after) = Len(before) + 1
                 /\ SubSeq(after, 1, Len(before)) = before
                 /\ Parses(after[Len(after)])
                 /\ LET record == Loads(after[Len(after)])
                    IN  /\ record.run_id \notin (RunIdsOf(before) \cup cleared)
                        /\ record.label = None
                        /\ record.eval_notes = None
                        /\ record.query = r.query
                        /\ record.answer = r.answer
                        /\ record.trust_score = r.trust_score
                        /\ record.top_k = r.request.top_k
                        /\ record.model = r.model
        ELSE /\ Len(Records(log'.lines)) <= Len(Records(log.lines))
             /\ RunIdsOf(log'.lines) \subseteq RunIdsOf(log.lines) ]_vars

\* A re-ranked query has appended its record after a record that carries a
\* label.
C19_Witness ==
    /\ resp[1].op = "query_rerank" /\ resp[1].append = "ok"
    /\ Len(Records(log.lines)) >= 2
    /\ Records(log.lines)[Len(Records(log.lines))].run_id = nextId
    /\ Records(log.lines)[Len(Records(log.lines))].answer = resp[1].answer
    /\ Records(log.lines)[1].label \in {"good", "off_topic"}

\* A record without its label and its notes.
Unlabelled(record) == [record EXCEPT !.label = None, !.eval_notes = None]

\* C20 (StoreSpec): with one request at a time, every step but a clear leaves
\* every record of the store in its place with every field but label and
\* notes as it was, and every step but a patch and a clear leaves label and
\* notes as they were too.
C20_RecordsStayUntilClear ==
    [][ resp'[1].op # "clear" =>
           \A i \in 1..Len(Records(log.lines)) :
              /\ i <= Len(Records(log'.lines))
              /\ Unlabelled(Records(log'.lines)[i]) = Unlabelled(Records(log.lines)[i])
              /\ resp'[1].op # "patch" => Records(log'.lines)[i] = Records(log.lines)[i]
       ]_vars

\* After a clear, two runs were logged, the first was given a label, and an
\* export has been served: both records are in the store.
C20_Witness ==
    /\ cleared # {}
    /\ resp[1].op = "export" /\ resp[1].status = 200
    /\ Len(Records(log.lines)) = 2
    /\ Records(log.lines)[1].label = "good"
    /\ Records(log.lines)[2].label = None

\* The records of the log in append order, however they are read.
Stored == Records(log.lines)

\* C21 (StoreSpec): a listing with limit >= 0 returns exactly
\* min(limit, number of stored records) records: the last ones appended,
\* newest first.
C21_ListReturnsMostRecent ==
    (resp[1].op = "list" /\ resp[1].limit >= 0) =>
        LET n == Len(Stored)
            m == Min(resp[1].limit, n)
        IN  resp[1].records = [i \in 1..m |-> Stored[n + 1 - i]]

\* The log without the lines json.loads rejects.
WellFormed(file) == [file EXCEPT !.lines = SelectSeq(file.lines, Parses)]

\* C22 (StoreSpec): every read gives what it would give if the unparsable
\* lines were not in the log: the listing, the source scores and the export
\* (its status, its examples and the dataset file it writes).
C22_MalformedLinesSkipped ==
    LET clean == WellFormed(log)
    IN  /\ resp[1].op = "list" =>
              (resp[1].status = 200
               /\ resp[1].records = ReadRunsFromFile(clean, resp[1].limit))
        /\ (resp[1].op = "query_rerank" /\ "source_scores" \in DOMAIN resp[1]) =>
              resp[1].source_scores = ComputeSourceQualityScores(clean)
        /\ resp[1].op = "export" =>
              LET lines == DatasetLines(ReadAllRuns(clean))
              IN  IF ReadAllRuns(clean) = << >> THEN resp[1].status = 404
                  ELSE IF lines = << >> THEN resp[1].status = 400
                  ELSE resp[1].status = 200 /\ resp[1].lines = lines

\* C23 (StoreSpec): a clear answers 200 whether or not there is a log, and
\* leaves no log; the request served next finds the store empty: a listing
\* returns no record, an export answers 404 (no runs found) and the source
\* scores a re-ranked query computes are the empty map.
C23_ClearEmptiesStore ==
    [][ /\ resp'[1].op = "clear" =>
              (resp'[1].status = 200 /\ ~log'.exists /\ ReadAllRuns(log') = << >>)
        /\ resp[1].op = "clear" =>
              /\ resp'[1].op = "list" => resp'[1].records = << >>
              /\ resp'[1].op = "export" => resp'[1].status = 404
              /\ (resp'[1].op = "query_rerank" /\ "source_scores" \in DOMAIN resp'[1]) =>
                    DOMAIN resp'[1].source_scores = {} ]_vars

\* An export answered 404 after a clear removed records that an earlier
\* export had found.
C23_Witness ==
    /\ resp[1].op = "export" /\ resp[1].status = 404
    /\ cleared # {}
    /\ dataset.exists

\* The last response is that of a re-ranked query that got to the re-ranking.
RerankedResponse == resp[1].op = "query_rerank" /\ "source_scores" \in DOMAIN resp[1]

\* The chunks retrieved under label `label` from source src, over the log.
ChunksUnder(label, src) ==
    UNION { { << i, j >> : j \in {j \in 1..Len(Stored[i].retrieved) :
                                     Stored[i].retrieved[j].source = src} }
            : i \in {i \in 1..Len(Stored) : Stored[i].label = label} }

\* C24 (RerankSpec): the source scores are a map whose keys are exactly the
\* sources of the chunks retrieved in the records with a valid label, and
\* whose value for a source is, in hundredths, 100 per chunk of it retrieved
\* under "good", plus 30 per chunk under "mixed", minus 100 per chunk under
\* "off_topic"; records with another label or none add nothing.
C24_SourceScores ==
    RerankedResponse =>
        LET scores == resp[1].source_scores
            keys == UNION { {Stored[i].retrieved[j].source : j \in 1..Len(Stored[i].retrieved)}
                            : i \in {i \in 1..Len(Stored) : Stored[i].label \in VALID_LABELS} }
        IN  /\ DOMAIN scores = keys
            /\ \A src \in keys :
                  scores[src] = 100 * Cardinality(ChunksUnder("good", src))
                                + 30 * Cardinality(ChunksUnder("mixed", src))
                                - 100 * Cardinality(ChunksUnder("off_topic", src))

\* The scores computed over a hand-labelled record that counts for nothing and
\* a run labelled "good" that retrieved two chunks of a.txt.
C24_Witness ==
    /\ RerankedResponse
    /\ "a.txt" \in DOMAIN resp[1].source_scores
    /\ resp[1].source_scores["a.txt"] = 200
    /\ \E i \in 1..Len(Stored) : Stored[i].label = "great"

\* combined, as the claim words it.
Key(c, scores) ==
    (IF c.source \in DOMAIN scores THEN scores[c.source] ELSE 0)
    - (IF c.distance = NoDistance THEN 0 ELSE c.distance)

\* Where a chunk stood in the retrieved list.
RetrievedAt(c, retrieved) ==
    CHOOSE p \in 1..Len(retrieved) :
        retrieved[p].source = c.source /\ retrieved[p].chunk = c.chunk

\* C25 (RerankSpec): the chunks of a re-ranked response are in descending
\* order of source score (0 without one) minus distance (0 when absent), and
\* chunks of equal value are in the order retrieval gave them; the order is
\* therefore fixed by the retrieved list and the scores.
C25_RerankOrder ==
    RerankedResponse =>
        LET chunks == resp[1].chunks
            scores == resp[1].source_scores
        IN  \A i, j \in 1..Len(chunks) :
               i < j =>
                  /\ Key(chunks[i], scores) >= Key(chunks[j], scores)
                  /\ Key(chunks[i], scores) = Key(chunks[j], scores) =>
                        RetrievedAt(chunks[i], resp[1].retrieved)
                        < RetrievedAt(chunks[j], resp[1].retrieved)

\* Two chunks of equal value, their sources scored.
C25_Witness ==
    /\ RerankedResponse
    /\ Len(resp[1].chunks) >= 2
    /\ Key(resp[1].chunks[1], resp[1].source_scores)
       = Key(resp[1].chunks[2], resp[1].source_scores)
    /\ resp[1].chunks[1].source # resp[1].chunks[2].source
    /\ resp[1].chunks[1].source \in DOMAIN resp[1].source_scores

\* C26 (RerankSpec): the chunks of a re-ranked response are a permutation of
\* the chunks the plain query returns for the retrieved list: each with its
\* text, source, chunk number, distance and relevance label.
C26_RerankPermutes ==
    RerankedResponse =>
        LET chunks == resp[1].chunks
            plain == ChunksOut(resp[1].retrieved)
        IN  /\ Len(chunks) = Len(plain)
            /\ \A i \in 1..Len(plain) :
                  Cardinality({j \in 1..Len(chunks) : chunks[j] = plain[i]})
                  = Cardinality({j \in 1..Len(plain) : plain[j] = plain[i]})

\* A re-ranking that changed the order of three chunks.
C26_Witness ==
    /\ RerankedResponse
    /\ Len(resp[1].chunks) = 3
    /\ resp[1].chunks # ChunksOut(resp[1].retrieved)

\* The positions in the log, among its records, of those with a valid label.
Labelled == {i \in 1..Len(Stored) : Stored[i].label \in VALID_LABELS}

\* C27 (StoreSpec): an export answers 404 when the log holds no record and
\* 400 when it holds records of which none has a valid label; an export that
\* answers either leaves the dataset file and the log as they were.
C27_ExportErrorsWriteNothing ==
    [][ resp'[1].op = "export" =>
           /\ Records(log.lines) = << >> => resp'[1].status = 404
           /\ (Records(log.lines) # << >> /\ Labelled = {}) => resp'[1].status = 400
           /\ resp'[1].status \in {400, 404} => (dataset' = dataset /\ log' = log) ]_vars

\* An export answered 400 over unlabelled records, the dataset file of an
\* earlier export still there.
C27_Witness ==
    /\ resp[1].op = "export" /\ resp[1].status = 400
    /\ Stored # << >>
    /\ dataset.exists

\* The k-th of the records with a valid label, in log order.
LabelledAt(k) ==
    Stored[CHOOSE i \in Labelled : Cardinality({j \in Labelled : j <= i}) = k]

\* C28 (StoreSpec): an export that succeeds returns one example per record
\* with a valid label, in log order, and none for the others; an example is
\* the system, user and assistant messages, in this order, the assistant
\* message being the stored answer, and the metadata run_id, label,
\* trust_score, top_k and model of the record; the dataset file holds the
\* same examples.
C28_ExportExamples ==
    (resp[1].op = "export" /\ resp[1].status = 200) =>
        LET lines == resp[1].lines
        IN  /\ Len(lines) = Cardinality(Labelled)
            /\ \A k \in 1..Len(lines) :
                  LET run == LabelledAt(k)
                      messages == lines[k].messages
                  IN  /\ Len(messages) = 3
                      /\ messages[1].role = "system"
                      /\ messages[2].role = "user"
                      /\ messages[3] = [role |-> "assistant", content |-> run.answer]
                      /\ lines[k].metadata =
                            [ run_id |-> run.run_id, label |-> run.label,
                              trust_score |-> run.trust_score, top_k |-> run.top_k,
                              model |-> run.model ]
            /\ dataset = File(lines)

\* An export of two examples from a log that holds an unlabelled record too.
C28_Witness ==
    /\ resp[1].op = "export" /\ resp[1].status = 200
    /\ Len(resp[1].lines) = 2
    /\ \E i \in 1..Len(Stored) : Stored[i].label = None

\* C29 (StoreSpec): in the example exported for a run that a query logged,
\* the system and user messages are the messages the generator built for the
\* model when it answered that query.
C29_ExportedPromptIsGeneratorPrompt ==
    (resp[1].op = "export" /\ resp[1].status = 200) =>
        \A k \in 1..Len(resp[1].lines) :
            LET line == resp[1].lines[k]
            IN  line.metadata.run_id \in DOMAIN sent =>
                   \A m \in sent[line.metadata.run_id] :
                       << line.messages[1], line.messages[2] >> = m

\* An export with the example of a run a re-ranked query logged with two chunks.
C29_Witness ==
    /\ resp[1].op = "export" /\ resp[1].status = 200
    /\ \E k \in 1..Len(resp[1].lines) :
          /\ resp[1].lines[k].metadata.run_id \in DOMAIN sent
          /\ sent[resp[1].lines[k].metadata.run_id] # {}
          /\ resp[1].lines[k].metadata.top_k = 2

\* C30 (GenSpec): an answer that a model call gave ends with the "Sources:"
\* header and, under it, the list "[i] source (chunk n)" of the documents
\* supplied, in their order, whatever text the model returned.
C30_ModelAnswerEndsWithSources ==
    (gen.called /\ ~IsBaseline(gen.result.answer)) =>
        /\ gen.result.answer.header
        /\ gen.result.answer.sources =
              [i \in 1..Len(gen.docs) |->
                  [n |-> i, source |-> gen.docs[i].source, chunk |-> gen.docs[i].chunk]]

\* The trust score the claim gives to n chunks from s distinct sources.
TrustOf(n, s) ==
    IF n = 0 THEN 0 ELSE Max(0, Min(99, 60 + Min(n * 5, 20) + Min(s * 5, 20)))

\* C31 (IndexSpec): the trust score of a query's response, and of the record
\* it logs, is 0 when no chunk was retrieved and otherwise
\* 60 + min(5 * chunks, 20) + min(5 * distinct sources, 20) clamped to 0..99;
\* it is an integer of 0..99 and 0 only when no chunk was retrieved.
C31_TrustScore ==
    /\ (resp[1].op = "query" /\ resp[1].status = 200) =>
          LET chunks == resp[1].chunks
              sources == {chunks[i].source : i \in 1..Len(chunks)}
          IN  /\ resp[1].trust_score = TrustOf(Len(chunks), Cardinality(sources))
              /\ resp[1].trust_score \in 0..99
              /\ resp[1].trust_score = 0 => chunks = << >>
    /\ \A r \in 1..Len(Stored) :
          LET retrieved == Stored[r].retrieved
              sources == {retrieved[i].source : i \in 1..Len(retrieved)}
          IN  /\ Stored[r].trust_score = TrustOf(Len(retrieved), Cardinality(sources))
              /\ Stored[r].trust_score \in 0..99
              /\ Stored[r].trust_score = 0 => retrieved = << >>

\* Four chunks of four files: the sum is 100 and the score 99; and a query
\* on an empty index was logged with score 0.
C31_Witness ==
    /\ resp[1].op = "query" /\ resp[1].status = 200
    /\ Len(resp[1].chunks) = 4
    /\ resp[1].trust_score = 99
    /\ \E r \in 1..Len(Stored) : Stored[r].trust_score = 0

\* The last direct call is one of relevance_label.
RelevanceCalled == call.fn = "relevance_label"

\* C32, as stated (HelperSpec): the label is "related" under 0.35, "somewhat
\* related" from 0.35 to under 0.65, "off-topic" from 0.65, and "unknown" for
\* a missing distance.
C32_RelevanceLabelsAsStated ==
    RelevanceCalled =>
        call.result = IF call.distance = NoDistance THEN "unknown"
                      ELSE IF call.distance < 35 THEN "related"
                      ELSE IF call.distance < 65 THEN "somewhat related"
                      ELSE "off-topic"

\* C32, amended (HelperSpec): the label is "Related" under 0.35, "Somewhat
\* related" from 0.35 to under 0.65, "Off-topic" from 0.65, and "Unknown" for
\* a missing distance: the bands are those stated, the labels are capitalised.
C32_RelevanceLabels ==
    RelevanceCalled =>
        /\ call.distance = NoDistance <=> call.result = "Unknown"
        /\ (call.distance # NoDistance /\ call.distance < 35) <=> call.result = "Related"
        /\ (35 <= call.distance /\ call.distance < 65) <=> call.result = "Somewhat related"
        /\ 65 <= call.distance <=> call.result = "Off-topic"

\* The label of the distance 0.65, a boundary.
C32_Witness ==
    RelevanceCalled /\ call.distance = 65 /\ call.result = "Off-topic"

\* a / b <= c / d and a / b = c / d for quotients of positive denominators.
AtMost(p, q) == p.num * q.den <= q.num * p.den
Same(p, q) == p.num * q.den = q.num * p.den

\* The true labels among the first k of the labels, for k >= 0.
FirstTrue(labels, k) == {i \in 1..Min(k, Len(labels)) : labels[i]}

\* C33 (HelperSpec): precision_at_k(labels, k) is the number of true labels
\* among the first k divided by k for k >= 1, and 0 when k = 0 or there is no
\* label; for k >= 0 it lies in [0, 1].
C33_PrecisionAtK ==
    (call.fn = "precision_at_k" /\ call.k >= 0) =>
        /\ IF call.k = 0 \/ call.labels = << >>
           THEN Same(call.result, Quotient(0, 1))
           ELSE Same(call.result,
                     Quotient(Cardinality(FirstTrue(call.labels, call.k)), call.k))
        /\ call.result.den > 0
        /\ AtMost(Quotient(0, 1), call.result)
        /\ AtMost(call.result, Quotient(1, 1))

\* precision_at_k([true, false, true], 3) is 2/3.
C33_Witness ==
    /\ call.fn = "precision_at_k"
    /\ call.labels = << TRUE, FALSE, TRUE >>
    /\ call.k = 3
    /\ Same(call.result, Quotient(2, 3))

\* C34 (HelperSpec): recall_at_k(labels, k) is the number of true labels
\* among the first k divided by the number of true labels, and 0 when no
\* label is true; for k >= 0 it lies in [0, 1] and is 1 when k >= len(labels)
\* and a label is true; and of two calls on the same labels, the one with the
\* larger k >= 0 does not return the smaller value.
C34_RecallAtK ==
    /\ [](   (call.fn = "recall_at_k" /\ call.k >= 0) =>
                LET total == Cardinality(FirstTrue(call.labels, Len(call.labels)))
                IN  /\ IF total = 0
                       THEN Same(call.result, Quotient(0, 1))
                       ELSE Same(call.result,
                                 Quotient(Cardinality(FirstTrue(call.labels, call.k)), total))
                    /\ call.result.den > 0
                    /\ AtMost(Quotient(0, 1), call.result)
                    /\ AtMost(call.result, Quotient(1, 1))
                    /\ (call.k >= Len(call.labels) /\ total > 0) =>
                          Same(call.result, Quotient(1, 1)) )
    /\ [][ (/\ call.fn = "recall_at_k" /\ call'.fn = "recall_at_k"
            /\ call'.labels = call.labels
            /\ 0 <= call.k /\ call.k <= call'.k) =>
              AtMost(call.result, call'.result) ]_vars

\* recall_at_k([true, false, true], 1) is 1/2.
C34_Witness ==
    /\ call.fn = "recall_at_k"
    /\ call.labels = << TRUE, FALSE, TRUE >>
    /\ call.k = 1
    /\ Same(call.result, Quotient(1, 2))

\* C35 (LogRaceSpec): the label of every record of the log is null or a valid
\* label; the record a query appends has label null; and a record that stays
\* in the log with a label that is not null does not get label null.
C35_LabelsNullThenValid ==
    /\ [](\A i \in 1..Len(Stored) : Stored[i].label \in VALID_LABELS \cup {None})
    /\ [][ /\ (nextId' # nextId /\ nextId' \in RunIdsOf(log'.lines)) =>
                 RecordOf(log'.lines, nextId').label = None
           /\ \A run_id \in RunIdsOf(log.lines) \cap RunIdsOf(log'.lines) :
                 RecordOf(log.lines, run_id).label # None =>
                    RecordOf(log'.lines, run_id).label # None ]_vars

\* The score of a source in a score map (0 without one), and the weight of a
\* label in the scoring formula, in hundredths.
ScoreIn(scores, src) == IF src \in DOMAIN scores THEN scores[src] ELSE 0
WeightOf(label) ==
    IF label = "good" THEN 100
    ELSE IF label = "mixed" THEN 30
    ELSE IF label = "off_topic" THEN 0 - 100
    ELSE 0

\* The number of chunks of source src a record retrieved.
ChunksOf(record, src) ==
    Cardinality({j \in 1..Len(record.retrieved) : record.retrieved[j].source = src})

\* A step in which worker t answers 200 to a patch.
Patched(t) == PatchAnswered(t) /\ resp'[t].status = 200

\* C36 (ScoreSpec): the source scores follow the labels stored.  A patch of a
\* run replaces the run's contribution: the score of every source changes by
\* the weight of the new label minus the weight of the old one, per chunk of
\* the source the run retrieved, whatever labels the run had before that;
\* a query leaves the scores as they are and a clear leaves none.
C36_ScoresFollowStoredLabels ==
    [][ LET before == ComputeSourceQualityScores(log)
            after == ComputeSourceQualityScores(log')
            sources == DOMAIN before \cup DOMAIN after
        IN  /\ \A t \in {1, 2} :
                  Patched(t) =>
                     LET old == RecordOf(log.lines, resp'[t].run_id)
                     IN  \A src \in sources :
                            ScoreIn(after, src)
                            = ScoreIn(before, src)
                              + (WeightOf(resp'[t].label) - WeightOf(old.label))
                                * ChunksOf(old, src)
            /\ nextId' # nextId => after = before
            /\ (\E t \in {1, 2} : resp'[t].op = "clear" /\ resp'[t] # resp[t]) =>
                  DOMAIN after = {}
      ]_vars

\* Run 1, which retrieved two chunks of a.txt, was patched good by one worker
\* and then off_topic by the other: the score of a.txt is that of off_topic
\* alone.
C36_Witness ==
    /\ resp[1].op = "patch" /\ resp[1].status = 200
    /\ resp[1].run_id = 1 /\ resp[1].label = "good"
    /\ resp[2].op = "patch" /\ resp[2].status = 200
    /\ resp[2].run_id = 1 /\ resp[2].label = "off_topic"
    /\ 1 \in RunIdsOf(log.lines)
    /\ RecordOf(log.lines, 1).label = "off_topic"
    /\ ScoreIn(ComputeSourceQualityScores(log), "a.txt") = 0 - 200

\* C37 (RerankSpec): for a re-ranked query whose run is logged, the numbered
\* context given to the model, the chunks of the response and the retrieved
\* list of the logged record hold the same chunks (source, number, text) in
\* the same order, and the relevance logged at a position is that of the
\* response's chunk at that position.
C37_SameOrderEverywhere ==
    (RerankedResponse /\ resp[1].append = "ok") =>
        LET chunks == resp[1].chunks
            record == RecordOf(log.lines, nextId)
        IN  /\ Len(record.retrieved) = Len(chunks)
            /\ \A i \in 1..Len(chunks) :
                  /\ record.retrieved[i].source = chunks[i].source
                  /\ record.retrieved[i].chunk = chunks[i].chunk
                  /\ record.retrieved[i].text = chunks[i].text
                  /\ record.retrieved[i].relevance = chunks[i].relevance
            /\ sent[nextId] # {}
            /\ \A m \in sent[nextId] :
                  LET context == m[2].content[4]
                  IN  /\ Len(context) = Len(chunks)
                      /\ \A i \in 1..Len(chunks) :
                            context[i] = [ n |-> i, source |-> chunks[i].source,
                                           chunk |-> chunks[i].chunk,
                                           text |-> chunks[i].text ]

\* A logged re-ranked query whose three chunks are not in retrieval order.
C37_Witness ==
    /\ RerankedResponse /\ resp[1].append = "ok"
    /\ Len(RecordOf(log.lines, nextId).retrieved) = 3
    /\ resp[1].chunks # ChunksOut(resp[1].retrieved)
    /\ sent[nextId] # {}

\* C38 (Spec): a patch answered 200 leaves as the log exactly the records that
\* could be parsed before it, in their order, the patched one with its new
\* label and notes, and so no blank or unparsable line; a patch answered 400
\* or 404 leaves the log file as it was, such lines included.
C38_PatchDropsDamagedLines ==
    [][ PatchAnswered(1) =>
           IF resp'[1].status = 200
           THEN LET before == SelectSeq(log.lines, LAMBDA line : line.kind = "rec")
                IN  /\ Len(log'.lines) = Len(before)
                    /\ \A i \in 1..Len(before) :
                          /\ log'.lines[i].kind = "rec"
                          /\ log'.lines[i].rec =
                                IF before[i].rec.run_id = resp'[1].run_id
                                THEN [before[i].rec EXCEPT !.label = resp'[1].label,
                                                           !.eval_notes = resp'[1].notes]
                                ELSE before[i].rec
           ELSE resp'[1].status \in {400, 404} /\ log' = log ]_vars

\* A patch answered 200 on the log that started as an old record and a blank
\* line and was not cleared: a run was appended after the blank line, and the
\* log is now the two records.
C38_Witness ==
    /\ resp[1].op = "patch" /\ resp[1].status = 200
    /\ cleared = {}
    /\ 0 \in RunIdsOf(log.lines)
    /\ Len(log.lines) = 2
    /\ \A i \in 1..Len(log.lines) : log.lines[i].kind = "rec"

====
